---- MODULE Spec2Model ----
(***************************************************************************)
(* MadBet: the escrowed pari-mutuel betting ledger.                        *)
(*                                                                         *)
(* Two processes share one JSON document (data/bets_data.json):            *)
(*   - the Discord bot (src/src/bot.py), a single asyncio event loop: the  *)
(*     code between two awaits of one command runs without any other bot   *)
(*     command running, but the web process can touch the file in between; *)
(*   - the Flask web app (src/src/web_app.py), whose requests read and     *)
(*     write the same file.                                                *)
(* Every file read and every file write is one step.  `running` is the bot *)
(* command that currently owns the event loop between two of its file      *)
(* operations (0: the loop is free).                                       *)
(***************************************************************************)
EXTENDS Integers, Sequences, FiniteSets, TLC

\* ---------------------------------------------------------------- constants
MAX_BETS == 100
BOT_FEE_PERCENTAGE == 5

\* ------------------------------------------------------------------- bounds
MaxMarkets == 1
MaxUsers == 2
MaxOptions == 2
MaxBetCalls == 2
MaxEndCalls == 2
MaxWebCalls == 2
MaxCalls == 4
\* the largest number of participants of a market handed to the payout computation
MaxEntries == 4
\* the largest id counter the store starts with when the slots are looked at
MaxId == 301
\* the largest capacity, besides MAX_BETS, the slot function of the test runs with
MaxCapacity == 5

Users == 1..MaxUsers
\* the users that create markets
Creators == {1}
\* wallet addresses used by web clients
Addresses == {"osmo1web"}
\* transaction hashes a web client may submit
WebTxHashes == {901}
BetAmounts == {1000000}
Tokens == {"osmo"}
\* time_limit of makebet in minutes, -1 is "never" (the default)
TimeLimits == {-1}
\* one pool of call ids per kind of command
MakeCalls == 1..MaxMarkets
BetCalls == (MaxMarkets + 1)..(MaxMarkets + MaxBetCalls)
EndCalls == (MaxMarkets + MaxBetCalls + 1)..(MaxMarkets + MaxBetCalls + MaxEndCalls)
WebCalls == (MaxMarkets + MaxBetCalls + MaxEndCalls + 1)..
                (MaxMarkets + MaxBetCalls + MaxEndCalls + MaxWebCalls)
CallIds == MakeCalls \cup BetCalls \cup EndCalls \cup WebCalls
MarketIds == 1..MaxMarkets

VARIABLES
    file,       \* data/bets_data.json: [exists, bets, bet_id_counter]
    wallets,    \* data/user_wallets.json: the user ids that have a wallet
    now,        \* the wall clock
    calls,      \* the commands and requests, running or finished
    running,    \* the bot command that owns the event loop, or 0
    nextTx,     \* the next transaction hash the transfer service hands out
    escrowIn,   \* per market id: amount moved into escrow by /bet transfers
    escrowOut,  \* per market id: amount moved out of escrow by multisends
    batches     \* per market id: number of multisends that succeeded

vars == <<file, wallets, now, calls, running, nextTx, escrowIn, escrowOut, batches>>

\* ------------------------------------------------------------ store helpers
NoBet == [id |-> 0]
NoData == [exists |-> FALSE]
EmptyBets == [k \in {} |-> NoBet]

\* a slot function without the case for the multiples of MAX_BETS
get_bet_storage_key_plain_mod(bet_id) == bet_id % MAX_BETS

get_bet_storage_key(bet_id) ==
    LET storage_slot == bet_id % MAX_BETS
    IN  IF storage_slot = 0 THEN MAX_BETS ELSE storage_slot

\* tests/test_circular_buffer.py: the same function with the capacity as a
\* parameter
get_bet_storage_key_of(bet_id, max_bets) ==
    LET storage_slot == bet_id % max_bets
    IN  IF storage_slot = 0 THEN max_bets ELSE storage_slot

\* bot load_bets_data: (bets, counter), or ({}, 1) when the file is missing
load_bets_data ==
    IF file.exists
    THEN [bets |-> file.bets, bet_id_counter |-> file.bet_id_counter]
    ELSE [bets |-> EmptyBets, bet_id_counter |-> 1]

\* web BetDataManager.load_bets_data: counter 0 when the file is missing
web_load_bets_data ==
    IF file.exists
    THEN [bets |-> file.bets, bet_id_counter |-> file.bet_id_counter]
    ELSE [bets |-> EmptyBets, bet_id_counter |-> 0]

\* dict.get on the loaded bets
DictGet(bets, key) == IF key \in DOMAIN bets THEN bets[key] ELSE NoBet

\* an assignment that forgets the other keys
DictPutAlone(bets, key, bet) == [k \in {key} |-> bet]

\* dict assignment bets[key] = bet
DictPut(bets, key, bet) ==
    [k \in (DOMAIN bets) \cup {key} |-> IF k = key THEN bet ELSE bets[k]]

\* bot get_bet_by_id: the key is str(bet_id), not the storage key
get_bet_by_id(bet_id) == DictGet(load_bets_data.bets, bet_id)

\* web BetDataManager.get_bet_by_id: looks the storage key up
web_get_bet_by_id(bet_id) ==
    DictGet(web_load_bets_data.bets, get_bet_storage_key(bet_id))

\* config.is_bet_locked: lock_time -1 is "indefinite"
is_bet_locked(bet) == bet.lock_time # -1 /\ now >= bet.lock_time

\* a creator check that takes the first user for the creator of a market
\* whose creator is a name
CreatorIdNameIsFirstUser(bet) ==
    IF bet.creator.kind \in {"id", "digits"} THEN bet.creator.v ELSE 1

\* int(bet['creator']) if bet['creator'] else 0, ValueError -> 0: the creator
\* is a user id (kind "id"), a text that int() parses (kind "digits", v its
\* value) or any other text (kind "name")
CreatorId(bet) ==
    IF bet.creator.kind \in {"id", "digits"} THEN bet.creator.v ELSE 0

\* a scan that never finds the user: the comparison is always false
AnyUserIdNoMatch(ps, uid) ==
    IF \E i \in 1..Len(ps) : ~ps[i].has_user_id THEN "KeyError" ELSE "false"

\* any(p['user_id'] == uid for p in participants): scans in order, stops at
\* the first match, raises KeyError at an entry that has no user_id key.
RECURSIVE AnyUserId(_, _)
AnyUserId(ps, uid) ==
    IF ps = <<>> THEN "false"
    ELSE IF ~Head(ps).has_user_id THEN "KeyError"
    ELSE IF Head(ps).user_id = uid THEN "true"
    ELSE AnyUserId(Tail(ps), uid)

\* ------------------------------------------------------------ call records
NoCall ==
    [kind |-> "none", pc |-> "none", bet_id |-> 0, user |-> 0, option |-> 0,
     by |-> "", bet |-> NoBet, data |-> NoData, tx |-> 0, outcome |-> "",
     recipients |-> <<>>, failed |-> <<>>, attempt |-> 0, in_doubt |-> 0]

\* the call ids of a pool are taken in order, at most MaxCalls calls in all
FreeCall(c, pool) ==
    /\ c \in pool
    /\ calls[c].kind = "none"
    /\ \A d \in pool : d < c => calls[d].kind # "none"
    /\ Cardinality({d \in CallIds : calls[d].kind # "none"}) < MaxCalls

\* the command returns: its locals are gone, its outcome was shown
Finish(c, outcome) ==
    [calls EXCEPT ![c].pc = "done", ![c].outcome = outcome, ![c].option = 0,
                  ![c].by = "",
                  ![c].bet = NoBet, ![c].data = NoData,
                  ![c].recipients = <<>>, ![c].failed = <<>>]

Init ==
    /\ file = [exists |-> FALSE, bets |-> EmptyBets, bet_id_counter |-> 1]
    /\ wallets = {}
    /\ now = 0
    /\ calls = [c \in CallIds |-> NoCall]
    /\ running = 0
    /\ nextTx = 1
    /\ escrowIn = [m \in MarketIds |-> 0]
    /\ escrowOut = [m \in MarketIds |-> 0]
    /\ batches = [m \in MarketIds |-> 0]

\* ------------------------------------------------------- wallets and clock
create_wallet(u) ==
    /\ running = 0
    /\ u \notin wallets
    /\ wallets' = wallets \cup {u}
    /\ UNCHANGED <<file, now, calls, running, nextTx, escrowIn, escrowOut, batches>>

delete_wallet(u) ==
    /\ running = 0
    /\ u \in wallets
    /\ wallets' = wallets \ {u}
    /\ UNCHANGED <<file, now, calls, running, nextTx, escrowIn, escrowOut, batches>>

\* ---------------------------------------------------------------- save_bet
\* save_bet line 211: load the whole document
SaveLoad(c) ==
    /\ calls[c].pc = "save_load"
    /\ running \in {0, c}
    /\ calls' = [calls EXCEPT ![c].pc = "save_write", ![c].data =
                    [exists |-> TRUE, bets |-> load_bets_data.bets,
                     bet_id_counter |-> load_bets_data.bet_id_counter]]
    /\ running' = c
    /\ UNCHANGED <<file, wallets, now, nextTx, escrowIn, escrowOut, batches>>

\* save_bet lines 214-221: put the bet in its slot, write the whole document
SaveWrite(c) ==
    /\ calls[c].pc = "save_write"
    /\ running = c
    /\ file' = [exists |-> TRUE,
                bets |-> DictPut(calls[c].data.bets,
                                 get_bet_storage_key(calls[c].bet.id), calls[c].bet),
                bet_id_counter |-> calls[c].data.bet_id_counter]
    /\ calls' = Finish(c, calls[c].outcome)
    /\ running' = 0
    /\ UNCHANGED <<wallets, now, nextTx, escrowIn, escrowOut, batches>>

\* ----------------------------------------------------------------- makebet
\* a key the bet dict does not have yet
NoResult == [present |-> FALSE]

NewBet(id, creator, amount, token, lock_time) ==
    [id |-> id, creator |-> creator, options |-> MaxOptions,
     participants |-> <<>>, is_active |-> TRUE, total_pool |-> 0,
     bet_amount |-> amount, bet_token |-> token, lock_time |-> lock_time,
     cancelled |-> FALSE, winning_option |-> -1, ended_by |-> "", cancelled_by |-> "",
     payout_data |-> NoResult, distribution_result |-> NoResult,
     refund_results |-> NoResult]

\* makebet up to get_next_bet_id's load (line 251)
makebet(c, user, amount, token, lock_minutes) ==
    /\ FreeCall(c, MakeCalls)
    /\ running = 0
    /\ calls' = [calls EXCEPT ![c] =
                    [NoCall EXCEPT !.kind = "makebet", !.pc = "id_write", !.user = user,
                        !.data = [exists |-> TRUE, bets |-> load_bets_data.bets,
                                  bet_id_counter |-> load_bets_data.bet_id_counter],
                        !.bet = NewBet(load_bets_data.bet_id_counter,
                                       [kind |-> "id", v |-> user], amount, token,
                                       IF lock_minutes = -1 THEN -1 ELSE now + lock_minutes)]]
    /\ running' = c
    /\ UNCHANGED <<file, wallets, now, nextTx, escrowIn, escrowOut, batches>>

\* get_next_bet_id lines 254-259: write the document with the counter + 1
MakeBetIdWrite(c) ==
    /\ calls[c].pc = "id_write"
    /\ running = c
    /\ file' = [exists |-> TRUE, bets |-> calls[c].data.bets,
                bet_id_counter |-> calls[c].data.bet_id_counter + 1]
    /\ calls' = [calls EXCEPT ![c].pc = "save_load", ![c].data = NoData,
                              ![c].bet_id = calls[c].bet.id, ![c].outcome = "Created"]
    /\ UNCHANGED <<wallets, now, running, nextTx, escrowIn, escrowOut, batches>>

\* --------------------------------------------------------------------- bet
\* the bet_record of place_bet_with_escrow (lines 162-176)
BetRecord(c) ==
    [has_user_id |-> TRUE, user_id |-> calls[c].user, wallet_address |-> "",
     option |-> calls[c].option - 1, amount |-> calls[c].bet.bet_amount,
     token |-> calls[c].bet.bet_token, tx_hash |-> calls[c].tx]

\* /bet is invoked; ensure_osmjs_available and safe_defer are awaited
bet(c, bet_id, user, option) ==
    /\ FreeCall(c, BetCalls)
    /\ calls' = [calls EXCEPT ![c] =
                    [NoCall EXCEPT !.kind = "bet", !.pc = "check1", !.bet_id = bet_id,
                                   !.user = user, !.option = option]]
    /\ UNCHANGED <<file, wallets, now, running, nextTx, escrowIn, escrowOut, batches>>

\* lines 1178-1187: the health check fails
BetServiceUnavailable(c) ==
    /\ calls[c].kind = "bet" /\ calls[c].pc = "check1"
    /\ calls' = Finish(c, "ServiceUnavailable")
    /\ UNCHANGED <<file, wallets, now, running, nextTx, escrowIn, escrowOut, batches>>

\* lines 1190-1262: first read and the checks on it
BetCheck1Result(c) ==
    LET bet_data == get_bet_by_id(calls[c].bet_id)
        option_index == calls[c].option - 1
    IN  IF bet_data = NoBet THEN "NotFound"
        ELSE IF is_bet_locked(bet_data) THEN "Locked"
        ELSE IF ~bet_data.is_active
             THEN (IF bet_data.cancelled THEN "Cancelled" ELSE "Ended")
        ELSE IF option_index < 0 \/ option_index >= bet_data.options THEN "InvalidOption"
        ELSE IF AnyUserId(bet_data.participants, calls[c].user) = "KeyError"
             THEN "UnexpectedError"
        ELSE IF AnyUserId(bet_data.participants, calls[c].user) = "true"
             THEN "AlreadyBet"
        ELSE "ok"

BetCheck1(c) ==
    /\ calls[c].kind = "bet" /\ calls[c].pc = "check1"
    /\ running = 0
    /\ IF BetCheck1Result(c) = "ok"
       THEN /\ calls' = [calls EXCEPT ![c].pc = "check2"]
            /\ running' = c
       ELSE /\ calls' = Finish(c, BetCheck1Result(c))
            /\ UNCHANGED running
    /\ UNCHANGED <<file, wallets, now, nextTx, escrowIn, escrowOut, batches>>

\* lines 1264-1320: second read, the checks on it, the wallet lookup
BetCheck2Result(c) ==
    LET current_bet_data == get_bet_by_id(calls[c].bet_id)
    IN  IF current_bet_data = NoBet THEN "NotFound"
        ELSE IF ~current_bet_data.is_active
             THEN (IF current_bet_data.cancelled THEN "Cancelled" ELSE "Ended")
        ELSE IF AnyUserId(current_bet_data.participants, calls[c].user) = "KeyError"
             THEN "UnexpectedError"
        ELSE IF AnyUserId(current_bet_data.participants, calls[c].user) = "true"
             THEN "AlreadyBet"
        ELSE IF calls[c].user \notin wallets THEN "NoWallet"
        ELSE "ok"

BetCheck2(c) ==
    /\ calls[c].kind = "bet" /\ calls[c].pc = "check2"
    /\ running = c
    /\ IF BetCheck2Result(c) = "ok"
       THEN calls' = [calls EXCEPT ![c].pc = "transfer",
                                   ![c].bet = get_bet_by_id(calls[c].bet_id)]
       ELSE calls' = Finish(c, BetCheck2Result(c))
    /\ running' = 0
    /\ UNCHANGED <<file, wallets, now, nextTx, escrowIn, escrowOut, batches>>

\* a failed transfer after which the command goes on to record the bet
BetTransferFailsButRecords(c) ==
    /\ calls[c].kind = "bet" /\ calls[c].pc = "transfer"
    /\ calls' = [calls EXCEPT ![c].pc = "final"]
    /\ UNCHANGED <<file, wallets, now, running, nextTx, escrowIn, escrowOut, batches>>

\* place_bet_with_escrow fails: validation, balance, send error, no service
BetTransferFails(c) ==
    /\ calls[c].kind = "bet" /\ calls[c].pc = "transfer"
    /\ calls' = Finish(c, "TransferFailed")
    /\ UNCHANGED <<file, wallets, now, running, nextTx, escrowIn, escrowOut, batches>>

\* place_bet_with_escrow succeeds: the amount is in escrow, tx_hash is known
BetTransferSucceeds(c) ==
    /\ calls[c].kind = "bet" /\ calls[c].pc = "transfer"
    /\ calls' = [calls EXCEPT ![c].pc = "final", ![c].tx = nextTx]
    /\ nextTx' = nextTx + 1
    /\ escrowIn' = [escrowIn EXCEPT ![calls[c].bet_id] = @ + calls[c].bet.bet_amount]
    /\ UNCHANGED <<file, wallets, now, running, escrowOut, batches>>

\* a third read without the final duplicate check
BetFinalResultNoCheck(c) ==
    IF get_bet_by_id(calls[c].bet_id) = NoBet THEN "Silent" ELSE "ok"

\* lines 1430-1461: third read, final check, append in memory
BetFinalResult(c) ==
    LET fresh_bet_data == get_bet_by_id(calls[c].bet_id)
    IN  IF fresh_bet_data = NoBet THEN "Silent"
        ELSE IF AnyUserId(fresh_bet_data.participants, calls[c].user) = "KeyError"
             THEN "UnexpectedError"
        ELSE IF AnyUserId(fresh_bet_data.participants, calls[c].user) = "true"
             THEN "DuplicatePrevented"
        ELSE "ok"

BetFinal(c) ==
    /\ calls[c].kind = "bet" /\ calls[c].pc = "final"
    /\ running = 0
    /\ IF BetFinalResult(c) = "ok"
       THEN /\ calls' = [calls EXCEPT ![c].pc = "save_load", ![c].outcome = "BetPlaced",
                            ![c].bet = [get_bet_by_id(calls[c].bet_id) EXCEPT
                                !.participants = Append(@, BetRecord(c)),
                                !.total_pool = @ + BetRecord(c).amount]]
            /\ running' = c
       ELSE /\ calls' = Finish(c, BetFinalResult(c))
            /\ UNCHANGED running
    /\ UNCHANGED <<file, wallets, now, nextTx, escrowIn, escrowOut, batches>>

\* ------------------------------------------------------- calculate_payouts
\* a format that keeps two fractional digits of a token only (":.2f")
RoundToCents(num, den) == ((num \div den) \div 10000) * 10000

\* the integer nearest to num / den, ties to the even one (":.6f" of a float)
RoundNearest(num, den) ==
    LET q == num \div den
        r == num % den
    IN  IF 2 * r < den THEN q
        ELSE IF 2 * r > den THEN q + 1
        ELSE IF q % 2 = 0 THEN q ELSE q + 1

\* lines 211-219: the participants that carry a user_id key
ValidParticipants(bet_data) ==
    SelectSeq(bet_data.participants, LAMBDA p : p.has_user_id)

Winners(bet_data, winning_option_index) ==
    SelectSeq(ValidParticipants(bet_data), LAMBDA p : p.option = winning_option_index)

\* a computation without the early return for a market without participants
calculate_payouts_without_empty_case(bet_data, winning_option_index) ==
    LET winners == Winners(bet_data, winning_option_index)
        total_pool == bet_data.bet_amount * Len(ValidParticipants(bet_data))
        bot_fee_c == total_pool * BOT_FEE_PERCENTAGE
        payout_pool_c == IF winners = <<>> THEN 0 ELSE total_pool * 100 - bot_fee_c
    IN  IF ValidParticipants(bet_data) = <<>>
        THEN [present |-> TRUE, success |-> FALSE, no_participants |-> FALSE,
              no_winners |-> FALSE, total_pool |-> 0, bot_fee_c |-> 0,
              payout_pool_c |-> 0, winners |-> <<>>]
        ELSE [present |-> TRUE, success |-> TRUE, no_participants |-> FALSE,
              no_winners |-> (winners = <<>>), total_pool |-> total_pool,
              bot_fee_c |-> bot_fee_c, payout_pool_c |-> payout_pool_c,
              winners |-> [i \in 1..Len(winners) |->
                  [user_id |-> winners[i].user_id,
                   payout |-> RoundNearest(payout_pool_c, 100 * Len(winners)),
                   token |-> bet_data.bet_token]]]

\* Amounts are in micro tokens (6 fractional digits); bot_fee and payout_pool
\* are kept exact in hundredths of a micro token (the _c fields).
calculate_payouts(bet_data, winning_option_index) ==
    LET participants == bet_data.participants
        valid == ValidParticipants(bet_data)
        winners == Winners(bet_data, winning_option_index)
        total_pool == bet_data.bet_amount * Len(valid)
        bot_fee_c == total_pool * BOT_FEE_PERCENTAGE
        payout_pool_c == total_pool * 100 - bot_fee_c
    IN  IF participants = <<>>
        THEN [present |-> TRUE, success |-> TRUE, no_participants |-> TRUE,
              no_winners |-> TRUE, total_pool |-> 0, bot_fee_c |-> 0,
              payout_pool_c |-> 0, winners |-> <<>>]
        ELSE IF valid = <<>>
        THEN [present |-> TRUE, success |-> FALSE, no_participants |-> FALSE,
              no_winners |-> FALSE, total_pool |-> 0, bot_fee_c |-> 0,
              payout_pool_c |-> 0, winners |-> <<>>]
        ELSE IF winners = <<>>
        THEN [present |-> TRUE, success |-> TRUE, no_participants |-> FALSE,
              no_winners |-> TRUE, total_pool |-> total_pool, bot_fee_c |-> bot_fee_c,
              payout_pool_c |-> 0, winners |-> <<>>]
        ELSE [present |-> TRUE, success |-> TRUE, no_participants |-> FALSE,
              no_winners |-> FALSE, total_pool |-> total_pool, bot_fee_c |-> bot_fee_c,
              payout_pool_c |-> payout_pool_c,
              winners |-> [i \in 1..Len(winners) |->
                  [user_id |-> winners[i].user_id,
                   payout |-> RoundNearest(payout_pool_c, 100 * Len(winners)),
                   token |-> bet_data.bet_token]]]

\* distribute_payouts_multisend lines 296-331: winners with a wallet
PayoutRecipients(payout_data) ==
    SelectSeq(payout_data.winners, LAMBDA w : w.user_id \in wallets)

PayoutFailedPreparations(payout_data) ==
    LET missing == SelectSeq(payout_data.winners, LAMBDA w : w.user_id \notin wallets)
    IN  [i \in 1..Len(missing) |-> missing[i].user_id]

\* distribute_refunds_multisend lines 413-456: participants with a wallet
CanRefund(p) == p.has_user_id /\ p.user_id \in wallets

RefundRecipients(bet_data) ==
    LET ok == SelectSeq(bet_data.participants, CanRefund)
    IN  [i \in 1..Len(ok) |->
            [user_id |-> ok[i].user_id, payout |-> ok[i].amount, token |-> ok[i].token]]

\* a preparation that forgets the participants it could not prepare
RefundFailedPreparationsNone(bet_data) == <<>>

RefundFailedPreparations(bet_data) ==
    LET missing == SelectSeq(bet_data.participants, LAMBDA p : ~CanRefund(p))
    IN  [i \in 1..Len(missing) |-> missing[i].user_id]

RECURSIVE SumPayout(_)
SumPayout(rs) == IF rs = <<>> THEN 0 ELSE Head(rs).payout + SumPayout(Tail(rs))

\* the recipients as recorded after a multisend that succeeded
Paid(recipients, tx) ==
    [i \in 1..Len(recipients) |->
        [user_id |-> recipients[i].user_id, amount |-> recipients[i].payout,
         token |-> recipients[i].token, tx_hash |-> tx]]

\* BotConfig.ADMIN_USER_IDS is empty: admins are the users with an admin role
ADMIN_USER_IDS == {}
is_admin(user, has_admin_role) == user \in ADMIN_USER_IDS \/ has_admin_role

\* ------------------------------------------------------------------ endbet
\* a permission check that lets admins through only
EndReadResultAdminsOnly(bet_data, user, user_is_admin) ==
    IF bet_data = NoBet THEN "NotFound"
    ELSE IF ~user_is_admin THEN "PermissionDenied"
    ELSE IF ~bet_data.is_active
         THEN (IF bet_data.cancelled THEN "Cancelled" ELSE "Ended")
    ELSE "ok"

\* a read without the permission check
EndReadResultAnyone(bet_data, user, user_is_admin) ==
    IF bet_data = NoBet THEN "NotFound"
    ELSE IF ~bet_data.is_active
         THEN (IF bet_data.cancelled THEN "Cancelled" ELSE "Ended")
    ELSE "ok"

\* lines 1794-1869: read, permission check, state check
EndReadResult(bet_data, user, user_is_admin) ==
    IF bet_data = NoBet THEN "NotFound"
    ELSE IF CreatorId(bet_data) # user /\ ~user_is_admin THEN "PermissionDenied"
    ELSE IF ~bet_data.is_active
         THEN (IF bet_data.cancelled THEN "Cancelled" ELSE "Ended")
    ELSE "ok"

EndedBy(bet_data, user, user_is_admin) ==
    IF user_is_admin /\ CreatorId(bet_data) # user THEN "Admin" ELSE "Creator"

endbet(c, bet_id, winning_option, user, has_admin_role) ==
    /\ FreeCall(c, EndCalls)
    /\ running = 0
    /\ LET bet_data == get_bet_by_id(bet_id)
           user_is_admin == is_admin(user, has_admin_role)
           res == EndReadResult(bet_data, user, user_is_admin)
           started == [NoCall EXCEPT !.kind = "endbet", !.bet_id = bet_id, !.user = user]
       IN  IF res = "ok"
           THEN calls' = [calls EXCEPT ![c] = [started EXCEPT !.pc = "defer",
                            !.option = winning_option, !.bet = bet_data,
                            !.by = EndedBy(bet_data, user, user_is_admin)]]
           ELSE calls' = [calls EXCEPT ![c] =
                            [started EXCEPT !.pc = "done", !.outcome = res]]
    /\ UNCHANGED <<file, wallets, now, running, nextTx, escrowIn, escrowOut, batches>>

\* lines 1874-1981: after safe_defer, up to the await of the multisend
EndCompute(c) ==
    /\ calls[c].kind = "endbet" /\ calls[c].pc = "defer"
    /\ running = 0
    /\ LET bet_data == calls[c].bet
           winning_index == calls[c].option - 1
           payout_data == calculate_payouts(bet_data, winning_index)
           closed == [bet_data EXCEPT !.is_active = FALSE,
                                      !.winning_option = winning_index,
                                      !.payout_data = payout_data]
       IN  IF winning_index < 0 \/ winning_index >= bet_data.options
           THEN calls' = Finish(c, "InvalidOption") /\ UNCHANGED running
           ELSE IF ~payout_data.success
           THEN calls' = Finish(c, "PayoutCalculationFailed") /\ UNCHANGED running
           ELSE IF payout_data.no_participants
           THEN /\ calls' = [calls EXCEPT ![c].pc = "save_load", ![c].bet = closed,
                                          ![c].outcome = "ClosedNoParticipants"]
                /\ running' = c
           ELSE IF payout_data.no_winners
           THEN /\ calls' = [calls EXCEPT ![c].pc = "save_load", ![c].outcome = "NoWinners",
                                ![c].bet = [closed EXCEPT !.ended_by = calls[c].by]]
                /\ running' = c
           ELSE IF PayoutRecipients(payout_data) = <<>>
           THEN calls' = Finish(c, "DistributionFailed") /\ UNCHANGED running
           ELSE /\ calls' = [calls EXCEPT ![c].pc = "multisend",
                                ![c].recipients = PayoutRecipients(payout_data),
                                ![c].failed = PayoutFailedPreparations(payout_data)]
                /\ UNCHANGED running
    /\ UNCHANGED <<file, wallets, now, nextTx, escrowIn, escrowOut, batches>>

\* a failed multisend after which the command closes the market all the same
EndMultisendFailsButCloses(c) ==
    /\ calls[c].kind = "endbet" /\ calls[c].pc = "multisend"
    /\ calls' = [calls EXCEPT ![c].pc = "save_load", ![c].outcome = "DistributionFailed",
                    ![c].bet = [calls[c].bet EXCEPT !.is_active = FALSE,
                                    !.winning_option = calls[c].option - 1,
                                    !.ended_by = calls[c].by]]
    /\ UNCHANGED <<file, wallets, now, running, nextTx, escrowIn, escrowOut, batches>>

\* lines 1981-1996: the multisend fails, the command returns without saving
EndMultisendFails(c) ==
    /\ calls[c].kind = "endbet" /\ calls[c].pc = "multisend"
    /\ calls' = Finish(c, "DistributionFailed")
    /\ UNCHANGED <<file, wallets, now, running, nextTx, escrowIn, escrowOut, batches>>

\* lines 1981-2011: the multisend succeeds, the local bet is marked ended
EndMultisendSucceeds(c) ==
    /\ calls[c].kind = "endbet" /\ calls[c].pc = "multisend"
    /\ LET bet_data == calls[c].bet
           winning_index == calls[c].option - 1
       IN  /\ calls' = [calls EXCEPT ![c].pc = "save_load", ![c].outcome = "Settled",
                           ![c].tx = nextTx,
                           ![c].bet = [bet_data EXCEPT !.is_active = FALSE,
                               !.winning_option = winning_index,
                               !.ended_by = calls[c].by,
                               !.payout_data = calculate_payouts(bet_data, winning_index),
                               !.distribution_result =
                                   [present |-> TRUE, success |-> TRUE,
                                    successful_payouts |-> Paid(calls[c].recipients, nextTx),
                                    failed_payouts |-> calls[c].failed]]]
           /\ escrowOut' = [escrowOut EXCEPT ![bet_data.id] = @ + SumPayout(calls[c].recipients)]
           /\ batches' = [batches EXCEPT ![bet_data.id] = @ + 1]
    /\ nextTx' = nextTx + 1
    /\ UNCHANGED <<file, wallets, now, running, escrowIn>>

\* -------------------------------------------------------------- cancel_bet
\* lines 2278-2421: read, permission and state checks; no participants: save
cancel_bet(c, bet_id, user, has_admin_role) ==
    /\ FreeCall(c, EndCalls)
    /\ running = 0
    /\ LET bet_data == get_bet_by_id(bet_id)
           user_is_admin == is_admin(user, has_admin_role)
           res == EndReadResult(bet_data, user, user_is_admin)
           started == [NoCall EXCEPT !.kind = "cancel_bet", !.bet_id = bet_id, !.user = user]
       IN  IF res # "ok"
           THEN /\ calls' = [calls EXCEPT ![c] =
                                [started EXCEPT !.pc = "done", !.outcome = res]]
                /\ UNCHANGED running
           ELSE IF bet_data.participants = <<>>
           THEN /\ calls' = [calls EXCEPT ![c] = [started EXCEPT !.pc = "save_load",
                                !.outcome = "CancelledNoParticipants",
                                !.bet = [bet_data EXCEPT !.is_active = FALSE,
                                    !.cancelled = TRUE,
                                    !.cancelled_by = EndedBy(bet_data, user, user_is_admin)]]]
                /\ running' = c
           ELSE /\ calls' = [calls EXCEPT ![c] =
                                [started EXCEPT !.pc = "defer", !.bet = bet_data]]
                /\ UNCHANGED running
    /\ UNCHANGED <<file, wallets, now, nextTx, escrowIn, escrowOut, batches>>

\* lines 2426, distribute_refunds_multisend 400-464: prepare the recipients
CancelPrepare(c) ==
    /\ calls[c].kind = "cancel_bet" /\ calls[c].pc = "defer"
    /\ running = 0
    /\ IF RefundRecipients(calls[c].bet) = <<>>
       THEN calls' = Finish(c, "RefundFailed")
       ELSE calls' = [calls EXCEPT ![c].pc = "multisend",
                         ![c].recipients = RefundRecipients(calls[c].bet),
                         ![c].failed = RefundFailedPreparations(calls[c].bet)]
    /\ UNCHANGED <<file, wallets, now, running, nextTx, escrowIn, escrowOut, batches>>

\* lines 2434-2446: the refund multisend fails, nothing is saved
CancelMultisendFails(c) ==
    /\ calls[c].kind = "cancel_bet" /\ calls[c].pc = "multisend"
    /\ calls' = Finish(c, "RefundFailed")
    /\ UNCHANGED <<file, wallets, now, running, nextTx, escrowIn, escrowOut, batches>>

\* lines 2449-2456: the refund multisend succeeds, the local bet is cancelled
CancelMultisendSucceeds(c) ==
    /\ calls[c].kind = "cancel_bet" /\ calls[c].pc = "multisend"
    /\ LET bet_data == calls[c].bet
       IN  /\ calls' = [calls EXCEPT ![c].pc = "save_load", ![c].outcome = "Cancelled",
                           ![c].tx = nextTx,
                           ![c].bet = [bet_data EXCEPT !.is_active = FALSE,
                               !.cancelled = TRUE, !.cancelled_by = "Admin",
                               !.refund_results =
                                   [present |-> TRUE,
                                    successful_refunds |-> Paid(calls[c].recipients, nextTx),
                                    failed_refunds |-> calls[c].failed]]]
           /\ escrowOut' = [escrowOut EXCEPT ![bet_data.id] = @ + SumPayout(calls[c].recipients)]
           /\ batches' = [batches EXCEPT ![bet_data.id] = @ + 1]
    /\ nextTx' = nextTx + 1
    /\ UNCHANGED <<file, wallets, now, running, escrowIn>>

\* ------------------------------------------------------- web: /api/place-bet
\* add_webapp_bet lines 309-350 on the loaded document
WebBetResult(data, bet_id, wallet_address, tx_hash) ==
    LET bet_key == get_bet_storage_key(bet_id)
    IN  IF bet_key \notin DOMAIN data.bets THEN "NotFound"
        ELSE IF ~data.bets[bet_key].is_active THEN "NotActive"
        ELSE IF is_bet_locked(data.bets[bet_key]) THEN "Locked"
        ELSE IF \E i \in 1..Len(data.bets[bet_key].participants) :
                   data.bets[bet_key].participants[i].wallet_address = wallet_address
             THEN "AlreadyBet"
        ELSE IF tx_hash = 0 THEN "NoTxHash"
        ELSE "ok"

\* add_webapp_bet: load, check, append in memory
add_webapp_bet(c, bet_id, wallet_address, option_index, amount, token, tx_hash) ==
    /\ FreeCall(c, WebCalls)
    /\ LET data == web_load_bets_data
           bet_key == get_bet_storage_key(bet_id)
           res == WebBetResult(data, bet_id, wallet_address, tx_hash)
           new_participant ==
               [has_user_id |-> FALSE, user_id |-> 0, wallet_address |-> wallet_address,
                option |-> option_index, amount |-> amount, token |-> token,
                tx_hash |-> tx_hash]
           started == [NoCall EXCEPT !.kind = "web_bet", !.bet_id = bet_id, !.tx = tx_hash]
       IN  IF res = "ok"
           THEN calls' = [calls EXCEPT ![c] = [started EXCEPT !.pc = "web_write",
                            !.outcome = "BetPlaced",
                            !.data = [exists |-> TRUE, bet_id_counter |-> data.bet_id_counter,
                                      bets |-> [data.bets EXCEPT ![bet_key].participants =
                                                    Append(@, new_participant)]]]]
           ELSE calls' = [calls EXCEPT ![c] =
                            [started EXCEPT !.pc = "done", !.outcome = res]]
    /\ UNCHANGED <<file, wallets, now, running, nextTx, escrowIn, escrowOut, batches>>

\* save_bets_data: the whole loaded document replaces the file
WebWrite(c) ==
    /\ calls[c].pc = "web_write"
    /\ file' = [exists |-> TRUE, bets |-> calls[c].data.bets,
                bet_id_counter |-> calls[c].data.bet_id_counter]
    /\ calls' = Finish(c, calls[c].outcome)
    /\ UNCHANGED <<wallets, now, running, nextTx, escrowIn, escrowOut, batches>>

Next ==
    \/ \E u \in Users : create_wallet(u)
    \/ \E u \in Users : delete_wallet(u)
    \/ \E c \in CallIds : SaveLoad(c)
    \/ \E c \in CallIds : SaveWrite(c)
    \/ \E c \in CallIds, u \in Creators, a \in BetAmounts, t \in Tokens, l \in TimeLimits :
          makebet(c, u, a, t, l)
    \/ \E c \in CallIds : MakeBetIdWrite(c)
    \/ \E c \in CallIds, b \in MarketIds, u \in Users, o \in 1..MaxOptions : bet(c, b, u, o)
    \/ \E c \in CallIds : BetServiceUnavailable(c)
    \/ \E c \in CallIds : BetCheck1(c)
    \/ \E c \in CallIds : BetCheck2(c)
    \/ \E c \in CallIds : BetTransferFails(c)
    \/ \E c \in CallIds : BetTransferSucceeds(c)
    \/ \E c \in CallIds : BetFinal(c)
    \/ \E c \in CallIds, b \in MarketIds, o \in 1..MaxOptions, u \in Users,
          r \in BOOLEAN : endbet(c, b, o, u, r)
    \/ \E c \in CallIds : EndCompute(c)
    \/ \E c \in CallIds : EndMultisendFails(c)
    \/ \E c \in CallIds : EndMultisendSucceeds(c)
    \/ \E c \in CallIds, b \in MarketIds, u \in Users, r \in BOOLEAN :
          cancel_bet(c, b, u, r)
    \/ \E c \in CallIds : CancelPrepare(c)
    \/ \E c \in CallIds : CancelMultisendFails(c)
    \/ \E c \in CallIds : CancelMultisendSucceeds(c)
    \/ \E c \in CallIds, b \in MarketIds, w \in Addresses, o \in 0..(MaxOptions - 1),
          a \in BetAmounts, t \in Tokens, h \in WebTxHashes :
          add_webapp_bet(c, b, w, o, a, t, h)
    \/ \E c \in CallIds : WebWrite(c)

Spec == Init /\ [][Next]_vars

\* ------------------------------------------- the payout computation alone
\* bet amounts in micro tokens, from MIN_BET_AMOUNT (0.1) up
PayoutAmounts == {100000, 100001, 1000000}
\* the /endbet call that is followed
PayoutCalls == {MaxMarkets + MaxBetCalls + 1}

\* an entry as /bet stores it
StoredEntry(user, option, amount, token) ==
    [has_user_id |-> TRUE, user_id |-> user, wallet_address |-> "",
     option |-> option, amount |-> amount, token |-> token, tx_hash |-> user]

\* market 1 is open and holds the entries of n users, who all have a wallet
PayoutInit ==
    \E n \in 0..MaxEntries, a \in PayoutAmounts :
      \E opts \in [1..n -> 0..(MaxOptions - 1)] :
        /\ file = [exists |-> TRUE, bet_id_counter |-> 2,
                   bets |-> DictPut(EmptyBets, 1,
                      [NewBet(1, [kind |-> "id", v |-> 1], a, "osmo", -1) EXCEPT
                          !.participants = [i \in 1..n |-> StoredEntry(i, opts[i], a, "osmo")],
                          !.total_pool = a * n])]
        /\ wallets = 1..n
        /\ now = 0
        /\ calls = [c \in CallIds |-> NoCall]
        /\ running = 0
        /\ nextTx = n + 1
        /\ escrowIn = [m \in MarketIds |-> IF m = 1 THEN a * n ELSE 0]
        /\ escrowOut = [m \in MarketIds |-> 0]
        /\ batches = [m \in MarketIds |-> 0]

PayoutNext ==
    \/ \E c \in PayoutCalls, o \in 1..MaxOptions : endbet(c, 1, o, 1, FALSE)
    \/ \E c \in PayoutCalls : EndCompute(c)
    \/ \E c \in PayoutCalls : EndMultisendFails(c)
    \/ \E c \in PayoutCalls : EndMultisendSucceeds(c)
    \/ \E c \in PayoutCalls : SaveLoad(c)
    \/ \E c \in PayoutCalls : SaveWrite(c)

PayoutSpec == PayoutInit /\ [][PayoutNext]_vars

\* ------------------------------------------------- the slots of the store
\* the bets of the file after the markets 1..n were created, one after the
\* other, by save_bet
\* (each slot holds the last market that was put into it)
StoreAfter(n) ==
    [k \in {get_bet_storage_key(j) : j \in 1..n} |->
        LET ids == {j \in 1..n : get_bet_storage_key(j) = k}
            last == CHOOSE j \in ids : \A h \in ids : h <= j
        IN  NewBet(last, [kind |-> "id", v |-> 1], 1000000, "osmo", -1)]

\* the markets 1..i-1 were created and the next id is i
SlotInit ==
    \E i \in 1..MaxId :
        /\ file = [exists |-> TRUE, bets |-> StoreAfter(i - 1), bet_id_counter |-> i]
        /\ wallets = {}
        /\ now = 0
        /\ calls = [c \in CallIds |-> NoCall]
        /\ running = 0
        /\ nextTx = 1
        /\ escrowIn = [m \in MarketIds |-> 0]
        /\ escrowOut = [m \in MarketIds |-> 0]
        /\ batches = [m \in MarketIds |-> 0]

SlotNext ==
    \/ \E c \in MakeCalls, u \in Creators, a \in BetAmounts, t \in Tokens, l \in TimeLimits :
          makebet(c, u, a, t, l)
    \/ \E c \in MakeCalls : MakeBetIdWrite(c)
    \/ \E c \in MakeCalls : SaveLoad(c)
    \/ \E c \in MakeCalls : SaveWrite(c)

SlotSpec == SlotInit /\ [][SlotNext]_vars

\* --------------------------------------- CreateMarket of both front ends
MIN_BET_AMOUNT == 100000
min_bet_amount == 100000
get_supported_token_list == {"osmo", "lab"}

\* the inputs of a CreateMarket request: counts, lengths and amounts on both
\* sides of each limit, the amount as a number of micro tokens or as text
\* that float() rejects
QuestionLens == {200, 201}
OptionCounts == {1, 2, 5, 6}
OptionLens == {100, 101}
AmountInputs ==
    {[kind |-> "text", v |-> 0]} \cup
    {[kind |-> "number", v |-> a] : a \in {-1000000, 0, 99999, 100000}}
TokenInputs == {"osmo", "OSMO", "atom"}

\* str.lower() on the token names that are drawn
Lower(token) == IF token = "OSMO" THEN "osmo" ELSE token

\* a validation that lets any number of options through
makebet_validation_any_options(question_len, n_options, option_len, bet_amount, token) ==
    IF option_len > 100 \/ question_len > 200 \/ bet_amount.kind # "number"
       \/ bet_amount.v < MIN_BET_AMOUNT \/ Lower(token) \notin get_supported_token_list
    THEN "Rejected" ELSE "ok"

\* makebet lines 1082-1123, in the order of the code
makebet_validation(question_len, n_options, option_len, bet_amount, token) ==
    IF n_options < 2 THEN "TooFewOptions"
    ELSE IF n_options > 5 THEN "TooManyOptions"
    ELSE IF option_len > 100 THEN "OptionTooLong"
    ELSE IF question_len > 200 THEN "QuestionTooLong"
    ELSE IF bet_amount.kind # "number" THEN "InvalidAmount"
    ELSE IF bet_amount.v <= 0 THEN "NotPositive"
    ELSE IF bet_amount.v < MIN_BET_AMOUNT THEN "BelowMinimum"
    ELSE IF Lower(token) \notin get_supported_token_list THEN "UnsupportedToken"
    ELSE "ok"

\* api_create_bet lines 857-961
api_create_bet_validation(complete, question_len, n_options, option_len, bet_amount, token) ==
    IF ~complete THEN "MissingField"
    ELSE IF n_options < 2 THEN "TooFewOptions"
    ELSE IF n_options > 5 THEN "TooManyOptions"
    ELSE IF option_len > 100 THEN "OptionTooLong"
    ELSE IF question_len > 200 THEN "QuestionTooLong"
    ELSE IF bet_amount.kind # "number" THEN "InvalidAmount"
    ELSE IF bet_amount.v <= 0 THEN "NotPositive"
    ELSE IF bet_amount.v < min_bet_amount THEN "BelowMinimum"
    ELSE IF Lower(token) \notin get_supported_token_list THEN "UnsupportedToken"
    ELSE "ok"

\* the web requests that create a market
WebCreateCalls == {MaxMarkets + MaxBetCalls + MaxEndCalls + 1}

\* makebet with its validation: a rejected command returns at once, an
\* accepted one goes on to get_next_bet_id's load (line 251)
makebet_request(c, user, question_len, n_options, option_len, bet_amount, token, lock_minutes) ==
    /\ FreeCall(c, MakeCalls)
    /\ running = 0
    /\ LET res == makebet_validation(question_len, n_options, option_len, bet_amount, token)
       IN  IF res # "ok"
           THEN /\ calls' = [calls EXCEPT ![c] =
                        [NoCall EXCEPT !.kind = "makebet", !.pc = "done", !.user = user,
                                       !.outcome = res]]
                /\ running' = running
           ELSE /\ calls' = [calls EXCEPT ![c] =
                        [NoCall EXCEPT !.kind = "makebet", !.pc = "id_write", !.user = user,
                            !.data = [exists |-> TRUE, bets |-> load_bets_data.bets,
                                      bet_id_counter |-> load_bets_data.bet_id_counter],
                            !.bet = [NewBet(load_bets_data.bet_id_counter,
                                            [kind |-> "id", v |-> user], bet_amount.v,
                                            Lower(token),
                                            IF lock_minutes = -1 THEN -1
                                            ELSE now + lock_minutes)
                                     EXCEPT !.options = n_options]]]
                /\ running' = c
    /\ UNCHANGED <<file, wallets, now, nextTx, escrowIn, escrowOut, batches>>

\* api_create_bet up to generate_bet_id's load (line 410)
api_create_bet(c, complete, question_len, n_options, option_len, bet_amount, token, lock_minutes) ==
    /\ FreeCall(c, WebCreateCalls)
    /\ LET res == api_create_bet_validation(complete, question_len, n_options, option_len,
                                            bet_amount, token)
           data == web_load_bets_data
       IN  IF res # "ok"
           THEN calls' = [calls EXCEPT ![c] =
                        [NoCall EXCEPT !.kind = "web_create", !.pc = "done", !.outcome = res]]
           ELSE calls' = [calls EXCEPT ![c] =
                        [NoCall EXCEPT !.kind = "web_create", !.pc = "web_id_write",
                            !.data = [exists |-> TRUE, bets |-> data.bets,
                                      bet_id_counter |-> data.bet_id_counter],
                            !.bet = [NewBet(data.bet_id_counter,
                                            [kind |-> "name", v |-> 0], bet_amount.v,
                                            Lower(token),
                                            IF lock_minutes = -1 THEN -1
                                            ELSE now + lock_minutes)
                                     EXCEPT !.options = n_options]]]
    /\ UNCHANGED <<file, wallets, now, running, nextTx, escrowIn, escrowOut, batches>>

\* generate_bet_id lines 415-416: write the document with the counter + 1
WebIdWrite(c) ==
    /\ calls[c].pc = "web_id_write"
    /\ file' = [exists |-> TRUE, bets |-> calls[c].data.bets,
                bet_id_counter |-> calls[c].data.bet_id_counter + 1]
    /\ calls' = [calls EXCEPT ![c].pc = "web_save_load", ![c].data = NoData,
                              ![c].bet_id = calls[c].bet.id]
    /\ UNCHANGED <<wallets, now, running, nextTx, escrowIn, escrowOut, batches>>

\* BetDataManager.save_bet line 424: load the whole document
WebSaveLoad(c) ==
    /\ calls[c].pc = "web_save_load"
    /\ calls' = [calls EXCEPT ![c].pc = "web_save_write", ![c].data =
                    [exists |-> TRUE, bets |-> web_load_bets_data.bets,
                     bet_id_counter |-> web_load_bets_data.bet_id_counter]]
    /\ UNCHANGED <<file, wallets, now, running, nextTx, escrowIn, escrowOut, batches>>

\* BetDataManager.save_bet lines 428-433: put the bet in its slot, write the
\* whole document
WebSaveWrite(c) ==
    /\ calls[c].pc = "web_save_write"
    /\ file' = [exists |-> TRUE,
                bets |-> DictPut(calls[c].data.bets,
                                 get_bet_storage_key(calls[c].bet.id), calls[c].bet),
                bet_id_counter |-> calls[c].data.bet_id_counter]
    /\ calls' = Finish(c, "Created")
    /\ UNCHANGED <<wallets, now, running, nextTx, escrowIn, escrowOut, batches>>

\* the ids the counter stands at when the requests arrive: around the first
\* use of a slot and around its reuse
CreateStarts == {1, 2, MAX_BETS, MAX_BETS + 1, 2 * MAX_BETS + 1}

\* a fresh installation (no file yet), or the markets 1..i-1 were created
CreateInit ==
    /\ \/ file = [exists |-> FALSE, bets |-> EmptyBets, bet_id_counter |-> 1]
       \/ \E i \in CreateStarts :
            file = [exists |-> TRUE, bets |-> StoreAfter(i - 1), bet_id_counter |-> i]
    /\ wallets = {}
    /\ now = 0
    /\ calls = [c \in CallIds |-> NoCall]
    /\ running = 0
    /\ nextTx = 1
    /\ escrowIn = [m \in MarketIds |-> 0]
    /\ escrowOut = [m \in MarketIds |-> 0]
    /\ batches = [m \in MarketIds |-> 0]

CreateNext ==
    \/ \E c \in MakeCalls, u \in Creators, q \in QuestionLens, n \in OptionCounts,
          ol \in OptionLens, a \in AmountInputs, t \in TokenInputs, l \in TimeLimits :
          makebet_request(c, u, q, n, ol, a, t, l)
    \/ \E c \in MakeCalls : MakeBetIdWrite(c)
    \/ \E c \in MakeCalls : SaveLoad(c)
    \/ \E c \in MakeCalls : SaveWrite(c)
    \/ \E c \in WebCreateCalls, f \in BOOLEAN, q \in QuestionLens, n \in OptionCounts,
          ol \in OptionLens, a \in AmountInputs, t \in TokenInputs, l \in TimeLimits :
          api_create_bet(c, f, q, n, ol, a, t, l)
    \/ \E c \in WebCreateCalls : WebIdWrite(c)
    \/ \E c \in WebCreateCalls : WebSaveLoad(c)
    \/ \E c \in WebCreateCalls : WebSaveWrite(c)

CreateSpec == CreateInit /\ [][CreateNext]_vars

\* ------------------------------------------ PlaceEntry of both front ends
\* _make_osmjs_request: retries: int = 3
retries == 3

\* the /bet command and the /api/place-bet request that are followed
EntryBetCalls == {MaxMarkets + 1}
EntryWebCalls == {MaxMarkets + MaxBetCalls + MaxEndCalls + 1}

\* the inputs of /api/place-bet
EntryAddresses == {"osmo1web", "cosmos1web"}
EntryAmounts == {0, 500000, 1000000}
EntryTokens == {"osmo", "lab"}
EntryTxHashes == {0, 901}
\* lock_time of the market: never, or a time that has come
EntryLockTimes == {-1, 0}

\* wallet_address.startswith('osmo') on the addresses that are drawn
StartsWithOsmo(wallet_address) == wallet_address \in {"osmo1web", "osmo1two"}

\* _make_osmjs_request lines 33-52: the request raises after it was sent (a
\* timeout, a lost connection); the transfer may have happened or not. The
\* loop sleeps and sends the request again, or returns None after the last
\* attempt and place_bet_with_escrow reports a failed transfer.
RequestTimesOut(c, moved) ==
    /\ calls[c].kind = "bet" /\ calls[c].pc = "transfer"
    /\ IF calls[c].attempt < retries - 1
       THEN calls' = [calls EXCEPT ![c].attempt = @ + 1, ![c].in_doubt = @ + 1]
       ELSE calls' = [Finish(c, "TransferFailed") EXCEPT ![c].in_doubt = @ + 1]
    /\ IF moved
       THEN /\ nextTx' = nextTx + 1
            /\ escrowIn' = [escrowIn EXCEPT ![calls[c].bet_id] = @ + calls[c].bet.bet_amount]
       ELSE UNCHANGED <<nextTx, escrowIn>>
    /\ UNCHANGED <<file, wallets, now, running, escrowOut, batches>>

\* a loop that makes one attempt more than retries
RequestHttpErrorOneMore(c) ==
    /\ calls[c].kind = "bet" /\ calls[c].pc = "transfer"
    /\ IF calls[c].attempt < retries
       THEN calls' = [calls EXCEPT ![c].attempt = @ + 1]
       ELSE calls' = Finish(c, "TransferFailed")
    /\ UNCHANGED <<file, wallets, now, running, nextTx, escrowIn, escrowOut, batches>>

\* _make_osmjs_request lines 43-45: the service answers with a status other
\* than 200; the loop goes on to the next attempt
RequestHttpError(c) ==
    /\ calls[c].kind = "bet" /\ calls[c].pc = "transfer"
    /\ IF calls[c].attempt < retries - 1
       THEN calls' = [calls EXCEPT ![c].attempt = @ + 1]
       ELSE calls' = Finish(c, "TransferFailed")
    /\ UNCHANGED <<file, wallets, now, running, nextTx, escrowIn, escrowOut, batches>>

\* api_place_bet lines 704-735, then add_webapp_bet
api_place_bet(c, complete, bet_id, wallet_address, option_index, amount, token, tx_hash) ==
    LET rejected(reason) ==
            /\ FreeCall(c, WebCalls)
            /\ calls' = [calls EXCEPT ![c] =
                            [NoCall EXCEPT !.kind = "web_bet", !.pc = "done",
                                           !.bet_id = bet_id, !.outcome = reason]]
            /\ UNCHANGED <<file, wallets, now, running, nextTx, escrowIn, escrowOut, batches>>
    IN  IF ~complete THEN rejected("MissingField")
        ELSE IF amount <= 0 THEN rejected("NotPositive")
        ELSE IF ~StartsWithOsmo(wallet_address) THEN rejected("InvalidAddress")
        ELSE add_webapp_bet(c, bet_id, wallet_address, option_index, amount, token, tx_hash)

\* an entry as add_webapp_bet stores it
WebStoredEntry(wallet_address, option, amount, token, tx_hash) ==
    [has_user_id |-> FALSE, user_id |-> 0, wallet_address |-> wallet_address,
     option |-> option, amount |-> amount, token |-> token, tx_hash |-> tx_hash]

\* market 1 as the commands can have left it: open with no entry, with the
\* entry of user 1 or with a web entry; ended or cancelled with no entry
EntryMarkets ==
    LET fresh(l) == NewBet(1, [kind |-> "id", v |-> 1], 1000000, "osmo", l)
    IN  UNION {
          { fresh(l),
            [fresh(l) EXCEPT !.participants = <<StoredEntry(1, 0, 1000000, "osmo")>>,
                             !.total_pool = 1000000],
            [fresh(l) EXCEPT !.participants =
                                 <<WebStoredEntry("osmo1web", 0, 1000000, "osmo", 901)>>],
            [fresh(l) EXCEPT !.is_active = FALSE, !.winning_option = 0,
                             !.payout_data = calculate_payouts(fresh(l), 0)],
            [fresh(l) EXCEPT !.is_active = FALSE, !.cancelled = TRUE,
                             !.cancelled_by = "Creator"] } : l \in EntryLockTimes }

\* the store is empty, or holds market 1 in one of these states
EntryInit ==
    /\ \/ file = [exists |-> TRUE, bets |-> EmptyBets, bet_id_counter |-> 1]
       \/ \E m \in EntryMarkets :
            file = [exists |-> TRUE, bets |-> DictPut(EmptyBets, 1, m),
                    bet_id_counter |-> 2]
    /\ wallets \in SUBSET Users
    /\ now = 0
    /\ calls = [c \in CallIds |-> NoCall]
    /\ running = 0
    /\ nextTx = 2
    /\ escrowIn = [m \in MarketIds |->
                      IF file.bets # EmptyBets /\ file.bets[1].participants # <<>>
                      THEN 1000000 ELSE 0]
    /\ escrowOut = [m \in MarketIds |-> 0]
    /\ batches = [m \in MarketIds |-> 0]

EntryNext ==
    \/ \E c \in EntryBetCalls, b \in MarketIds, u \in Users, o \in 0..(MaxOptions + 1) :
          bet(c, b, u, o)
    \/ \E c \in EntryBetCalls : BetServiceUnavailable(c)
    \/ \E c \in EntryBetCalls : BetCheck1(c)
    \/ \E c \in EntryBetCalls : BetCheck2(c)
    \/ \E c \in EntryBetCalls, moved \in BOOLEAN : RequestTimesOut(c, moved)
    \/ \E c \in EntryBetCalls : RequestHttpError(c)
    \/ \E c \in EntryBetCalls : BetTransferFails(c)
    \/ \E c \in EntryBetCalls : BetTransferSucceeds(c)
    \/ \E c \in EntryBetCalls : BetFinal(c)
    \/ \E c \in EntryBetCalls : SaveLoad(c)
    \/ \E c \in EntryBetCalls : SaveWrite(c)
    \/ \E c \in EntryWebCalls, f \in BOOLEAN, b \in MarketIds, w \in EntryAddresses,
          o \in (-1)..MaxOptions, a \in EntryAmounts, t \in EntryTokens,
          h \in EntryTxHashes :
          api_place_bet(c, f, b, w, o, a, t, h)
    \/ \E c \in EntryWebCalls : WebWrite(c)

EntrySpec == EntryInit /\ [][EntryNext]_vars

\* ------------------------------------------- the bot when a read fails
\* load_bets_data lines 182-184: reading the file raised (the other process
\* is rewriting it, it is not valid JSON, it cannot be opened); the error is
\* logged and the caller gets no bets and the counter 1
FailedLoad == [exists |-> TRUE, bets |-> EmptyBets, bet_id_counter |-> 1]

\* makebet when the load of get_next_bet_id (line 251) fails
makebet_read_fails(c, user, amount, token, lock_minutes) ==
    /\ FreeCall(c, MakeCalls)
    /\ running = 0
    /\ calls' = [calls EXCEPT ![c] =
                    [NoCall EXCEPT !.kind = "makebet", !.pc = "id_write", !.user = user,
                        !.data = FailedLoad,
                        !.bet = NewBet(FailedLoad.bet_id_counter,
                                       [kind |-> "id", v |-> user], amount, token,
                                       IF lock_minutes = -1 THEN -1 ELSE now + lock_minutes)]]
    /\ running' = c
    /\ UNCHANGED <<file, wallets, now, nextTx, escrowIn, escrowOut, batches>>

\* save_bet when its load (line 211) fails
SaveLoadFails(c) ==
    /\ calls[c].pc = "save_load"
    /\ running \in {0, c}
    /\ calls' = [calls EXCEPT ![c].pc = "save_write", ![c].data = FailedLoad]
    /\ running' = c
    /\ UNCHANGED <<file, wallets, now, nextTx, escrowIn, escrowOut, batches>>

\* /bet when the read of its third get_bet_by_id (line 1422) fails:
\* fresh_bet_data is None, the command returns without any message
BetFinalReadFails(c) ==
    /\ calls[c].kind = "bet" /\ calls[c].pc = "final"
    /\ running = 0
    /\ calls' = Finish(c, "Silent")
    /\ UNCHANGED <<file, wallets, now, running, nextTx, escrowIn, escrowOut, batches>>

\* the store as in CreateInit; any of the users may have a wallet
FaultInit ==
    /\ \/ file = [exists |-> FALSE, bets |-> EmptyBets, bet_id_counter |-> 1]
       \/ \E i \in CreateStarts :
            file = [exists |-> TRUE, bets |-> StoreAfter(i - 1), bet_id_counter |-> i]
    /\ wallets \in SUBSET Users
    /\ now = 0
    /\ calls = [c \in CallIds |-> NoCall]
    /\ running = 0
    /\ nextTx = 1
    /\ escrowIn = [m \in MarketIds |-> 0]
    /\ escrowOut = [m \in MarketIds |-> 0]
    /\ batches = [m \in MarketIds |-> 0]

FaultNext ==
    \/ \E c \in MakeCalls, u \in Creators, a \in BetAmounts, t \in Tokens, l \in TimeLimits :
          makebet(c, u, a, t, l)
    \/ \E c \in MakeCalls, u \in Creators, a \in BetAmounts, t \in Tokens, l \in TimeLimits :
          makebet_read_fails(c, u, a, t, l)
    \/ \E c \in MakeCalls : MakeBetIdWrite(c)
    \/ \E c \in MakeCalls \cup EntryBetCalls : SaveLoad(c)
    \/ \E c \in MakeCalls \cup EntryBetCalls : SaveLoadFails(c)
    \/ \E c \in MakeCalls \cup EntryBetCalls : SaveWrite(c)
    \/ \E c \in EntryBetCalls, b \in MarketIds, u \in Users, o \in 1..MaxOptions :
          bet(c, b, u, o)
    \/ \E c \in EntryBetCalls : BetCheck1(c)
    \/ \E c \in EntryBetCalls : BetCheck2(c)
    \/ \E c \in EntryBetCalls : BetTransferFails(c)
    \/ \E c \in EntryBetCalls : BetTransferSucceeds(c)
    \/ \E c \in EntryBetCalls : BetFinal(c)
    \/ \E c \in EntryBetCalls : BetFinalReadFails(c)

FaultSpec == FaultInit /\ [][FaultNext]_vars

\* ------------------------------------------- closing a market, alone
\* the creators a stored market can have: user 1 (/makebet), and the
\* creator_name of the web form (api_create_bet line 876), free text that may
\* or may not be a number
CloseCreators ==
    {[kind |-> "id", v |-> 1], [kind |-> "name", v |-> 0], [kind |-> "digits", v |-> 2]}

\* the entries of market 1: entry i is the one of user i (/bet) or one of
\* the web client (add_webapp_bet), whose transfer is taken to be real
CloseEntries ==
    UNION {[1..n -> {StoredEntry(1, o, 1000000, "osmo") : o \in 0..(MaxOptions - 1)}
                    \cup {WebStoredEntry("osmo1web", o, 1000000, "osmo", 901) :
                             o \in 0..(MaxOptions - 1)}] : n \in 0..MaxUsers}

\* entry i of a drawn market belongs to user i
CloseEntry(es) ==
    [i \in 1..Len(es) |-> IF es[i].has_user_id
                          THEN [es[i] EXCEPT !.user_id = i, !.tx_hash = i] ELSE es[i]]

\* market 1 is open and holds the drawn entries; any user may have a wallet
CloseInit ==
    \E cr \in CloseCreators, es \in CloseEntries :
        /\ file = [exists |-> TRUE, bet_id_counter |-> 2,
                   bets |-> DictPut(EmptyBets, 1,
                      [NewBet(1, cr, 1000000, "osmo", -1) EXCEPT
                          !.participants = CloseEntry(es),
                          !.total_pool = 1000000 * Len(es)])]
        /\ wallets \in SUBSET Users
        /\ now = 0
        /\ calls = [c \in CallIds |-> NoCall]
        /\ running = 0
        /\ nextTx = MaxUsers + 1
        /\ escrowIn = [m \in MarketIds |-> IF m = 1 THEN 1000000 * Len(es) ELSE 0]
        /\ escrowOut = [m \in MarketIds |-> 0]
        /\ batches = [m \in MarketIds |-> 0]

CloseNext ==
    \/ \E c \in EndCalls, o \in 1..MaxOptions, u \in Users, r \in BOOLEAN :
          endbet(c, 1, o, u, r)
    \/ \E c \in EndCalls : EndCompute(c)
    \/ \E c \in EndCalls : EndMultisendFails(c)
    \/ \E c \in EndCalls : EndMultisendSucceeds(c)
    \/ \E c \in EndCalls, u \in Users, r \in BOOLEAN : cancel_bet(c, 1, u, r)
    \/ \E c \in EndCalls : CancelPrepare(c)
    \/ \E c \in EndCalls : CancelMultisendFails(c)
    \/ \E c \in EndCalls : CancelMultisendSucceeds(c)
    \/ \E c \in EndCalls : SaveLoad(c)
    \/ \E c \in EndCalls : SaveWrite(c)

CloseSpec == CloseInit /\ [][CloseNext]_vars

\* ------------------------------- closing a market when every transfer works
\* market 1 is open with at least one entry, every user has a wallet, and
\* the transfer service accepts every request
LiveInit ==
    /\ CloseInit
    /\ wallets = Users
    /\ get_bet_by_id(1).participants # <<>>

\* the steps the bot takes by itself once a command was started
LiveSteps ==
    \/ \E c \in PayoutCalls : EndCompute(c)
    \/ \E c \in PayoutCalls : EndMultisendSucceeds(c)
    \/ \E c \in PayoutCalls : CancelPrepare(c)
    \/ \E c \in PayoutCalls : CancelMultisendSucceeds(c)
    \/ \E c \in PayoutCalls : SaveLoad(c)
    \/ \E c \in PayoutCalls : SaveWrite(c)

\* one /endbet or /cancelbet of user 2, an admin
LiveNext ==
    \/ \E c \in PayoutCalls, o \in 1..MaxOptions : endbet(c, 1, o, MaxUsers, TRUE)
    \/ \E c \in PayoutCalls : cancel_bet(c, 1, MaxUsers, TRUE)
    \/ LiveSteps

\* the event loop resumes every coroutine whose await has completed
LiveSpec == LiveInit /\ [][LiveNext]_vars /\ WF_vars(LiveSteps)

\* ------------------------------------------- the web entries, alone
\* two web clients, and the transaction hashes they submit: the one of the
\* /bet entry of user 1 (hashes are public on the chain) and another one
TxAddresses == {"osmo1web", "osmo1two"}
TxHashes == {1, 901}

TxNext ==
    \/ \E c \in WebCalls, f \in BOOLEAN, b \in MarketIds, w \in TxAddresses,
          o \in 0..(MaxOptions - 1), h \in TxHashes :
          api_place_bet(c, f, b, w, o, 1000000, "osmo", h)
    \/ \E c \in WebCalls : WebWrite(c)

TxSpec == EntryInit /\ [][TxNext]_vars

\* ------------------------------------------------------------------ claims
\* call c took the step
Took(c) == calls'[c] # calls[c]

\* a command of the bot (/makebet, /bet, /endbet, /cancelbet) took the step
BotStep == \E c \in MakeCalls \cup BetCalls \cup EndCalls : Took(c)

\* the calls of kind bet for one market and one principal
BetCallsOf(m, u) ==
    {c \in BetCalls : calls[c].kind = "bet" /\ calls[c].bet_id = m /\ calls[c].user = u}

\* the same principal: user_id for bot entries, wallet_address for web entries
SamePrincipal(p, q) ==
    \/ p.has_user_id /\ q.has_user_id /\ p.user_id = q.user_id
    \/ ~p.has_user_id /\ ~q.has_user_id /\ p.wallet_address = q.wallet_address

\* C1: in every reachable state no stored market has two entries of the same
\* principal (user_id for bot entries, wallet_address for web entries).
C1_NoDuplicateEntries ==
    \A k \in DOMAIN file.bets :
        \A i, j \in 1..Len(file.bets[k].participants) :
            i < j => ~SamePrincipal(file.bets[k].participants[i],
                                    file.bets[k].participants[j])

\* two /bet calls of one user on one market both paid into escrow, one was
\* recorded and the other was stopped by the final check
C1_Witness ==
    \E c, d \in BetCalls :
        /\ c # d
        /\ calls[c].kind = "bet" /\ calls[d].kind = "bet"
        /\ calls[c].user = calls[d].user /\ calls[c].bet_id = calls[d].bet_id
        /\ calls[c].outcome = "BetPlaced" /\ calls[c].pc = "done"
        /\ calls[d].outcome = "DuplicatePrevented" /\ calls[d].pc = "done"
        /\ calls[c].tx # 0 /\ calls[d].tx # 0

\* the outcomes of /bet under which a precondition of the claim did not hold:
\* the market was not there, the principal had no wallet, the transfer failed
C2_Excluded == {"NotFound", "NoWallet", "ServiceUnavailable", "TransferFailed"}

\* C2: when K >= 2 /bet calls of one principal on one open, unlocked market
\* have all returned and every transfer succeeded, exactly one of them
\* appended an Entry and each other one ended with AlreadyBet or
\* DuplicatePrevented.
C2_ExactlyOneAppends ==
    \A m \in MarketIds, u \in Users :
        ( /\ Cardinality(BetCallsOf(m, u)) >= 2
          /\ \A c \in BetCallsOf(m, u) :
                calls[c].pc = "done" /\ calls[c].outcome \notin C2_Excluded
          /\ \A c \in EndCalls : calls[c].kind = "none"
          /\ \A c \in WebCalls : calls[c].pc \in {"none", "done"}
          /\ m \in DOMAIN file.bets /\ file.bets[m].is_active
          /\ ~is_bet_locked(file.bets[m]) )
        => /\ Cardinality({c \in BetCallsOf(m, u) : calls[c].outcome = "BetPlaced"}) = 1
           /\ \A c \in BetCallsOf(m, u) :
                calls[c].outcome \in {"BetPlaced", "AlreadyBet", "DuplicatePrevented"}

\* what records how a market was closed
ClosureOf(b) ==
    <<b.is_active, b.cancelled, b.winning_option, b.ended_by, b.cancelled_by,
      b.payout_data, b.distribution_result, b.refund_results>>

\* C3: once a stored market is Settled or Cancelled, no later step of a
\* /endbet, /cancelbet or /bet command changes its state, winning option,
\* settlement record or cancellation record.
C3_ClosedIsTerminal ==
    [][\A k \in DOMAIN file.bets :
          (BotStep /\ ~file.bets[k].is_active /\ k \in DOMAIN file'.bets
            /\ file'.bets[k].id = file.bets[k].id)
          => ClosureOf(file'.bets[k]) = ClosureOf(file.bets[k])]_vars

\* C4: the step in which /endbet learns that the distribution failed totally
\* (the multisend failed, or no recipient could be prepared) ends the command
\* and leaves the file as it is.
C4_FailedSettleKeepsStore ==
    [][\A c \in EndCalls :
          (calls[c].kind = "endbet" /\ Took(c)
            /\ (calls[c].pc = "multisend" \/ calls'[c].outcome = "DistributionFailed")
            /\ calls'[c].tx = 0)
          => (file' = file /\ calls'[c].pc = "done"
                /\ calls'[c].outcome = "DistributionFailed")]_vars

\* /endbet failed at the distribution and the market is still open, with its
\* participants and no winning option
C4_Witness ==
    \E c \in EndCalls :
        /\ calls[c].kind = "endbet" /\ calls[c].outcome = "DistributionFailed"
        /\ calls[c].pc = "done"
        /\ calls[c].bet_id \in DOMAIN file.bets
        /\ file.bets[calls[c].bet_id].is_active
        /\ file.bets[calls[c].bet_id].winning_option = -1
        /\ file.bets[calls[c].bet_id].participants # <<>>

\* C5: the step in which the transfer of /bet ends without a transaction ends
\* the command with TransferFailed and leaves the file as it is.
C5_FailedTransferKeepsStore ==
    [][\A c \in BetCalls :
          (calls[c].kind = "bet" /\ calls[c].pc = "transfer" /\ Took(c)
            /\ calls'[c].tx = 0)
          => (file' = file /\ calls'[c].pc = "done"
                /\ calls'[c].outcome = "TransferFailed")]_vars

\* a /bet failed at the transfer, and a later /bet of the same principal on
\* the same market was recorded
C5_Witness ==
    \E c, d \in BetCalls :
        /\ c < d
        /\ calls[c].kind = "bet" /\ calls[d].kind = "bet"
        /\ calls[c].user = calls[d].user /\ calls[c].bet_id = calls[d].bet_id
        /\ calls[c].outcome = "TransferFailed" /\ calls[c].pc = "done"
        /\ calls[d].outcome = "BetPlaced" /\ calls[d].pc = "done"

\* C6: an Entry that /bet appended and saved stays stored at its place,
\* unmodified, whatever step of a /bet, /endbet or /cancelbet command comes.
C6_EntriesPersist ==
    [][\A k \in DOMAIN file.bets :
          (BotStep /\ k \in DOMAIN file'.bets /\ file'.bets[k].id = file.bets[k].id)
          => \A i \in 1..Len(file.bets[k].participants) :
                file.bets[k].participants[i].has_user_id
                => /\ i <= Len(file'.bets[k].participants)
                   /\ file'.bets[k].participants[i] = file.bets[k].participants[i]]_vars

\* C7: the participants of a stored market that is Settled or Cancelled never
\* change, whatever step of a /bet, /endbet or /cancelbet command comes.
C7_ClosedParticipantsFrozen ==
    [][\A k \in DOMAIN file.bets :
          (BotStep /\ ~file.bets[k].is_active /\ k \in DOMAIN file'.bets
            /\ file'.bets[k].id = file.bets[k].id)
          => file'.bets[k].participants = file.bets[k].participants]_vars

\* the market as /bet reads it holds an entry of the user
HasEntryOf(bet_data, u) ==
    /\ bet_data # NoBet
    /\ \E i \in 1..Len(bet_data.participants) :
          bet_data.participants[i].has_user_id /\ bet_data.participants[i].user_id = u

\* C8: when /bet, after its transfer succeeded, re-reads a market that holds
\* an entry of the same user, the step writes nothing and ends the command
\* with DuplicatePrevented, which carries the transaction of the transfer.
C8_DuplicatePrevented ==
    [][\A c \in BetCalls :
          (calls[c].kind = "bet" /\ calls[c].pc = "final" /\ Took(c)
            /\ HasEntryOf(get_bet_by_id(calls[c].bet_id), calls[c].user))
          => (file' = file /\ calls'[c].pc = "done"
                /\ calls'[c].outcome = "DuplicatePrevented"
                /\ calls'[c].tx = calls[c].tx /\ calls[c].tx # 0)]_vars

\* a /bet ended with DuplicatePrevented and shows its transaction
C8_Witness ==
    \E c \in BetCalls :
        /\ calls[c].kind = "bet" /\ calls[c].pc = "done"
        /\ calls[c].outcome = "DuplicatePrevented" /\ calls[c].tx # 0
        /\ HasEntryOf(get_bet_by_id(calls[c].bet_id), calls[c].user)

\* C9: for each market at most one outbound multisend ever succeeds.
C9_AtMostOneBatch == \A m \in MarketIds : batches[m] <= 1

\* the winners of a stored market: the participants on the winning option
StoredWinners(b) == SelectSeq(b.participants, LAMBDA p : p.option = b.winning_option)

\* the number of records of a payout list that name the participant
Listed(list, p) ==
    Cardinality({i \in 1..Len(list) : p.has_user_id /\ list[i] = p.user_id})

UserIds(paid) == [i \in 1..Len(paid) |-> paid[i].user_id]

\* C10: the step in which /endbet saves after a multisend that paid at least
\* one winner stores the market as ended, and every winner of it is listed
\* exactly once, in successful_payouts or in failed_payouts.
C10_PartialSettlementRecorded ==
    [][\A c \in EndCalls :
          (calls[c].kind = "endbet" /\ calls[c].pc = "save_write" /\ Took(c)
            /\ calls[c].outcome = "Settled")
          => LET b == file'.bets[get_bet_storage_key(calls[c].bet.id)]
             IN  /\ ~b.is_active /\ ~b.cancelled
                 /\ b.winning_option = calls[c].option - 1
                 /\ b.distribution_result.present
                 /\ \A i \in 1..Len(StoredWinners(b)) :
                       Listed(UserIds(b.distribution_result.successful_payouts),
                              StoredWinners(b)[i])
                       + Listed(b.distribution_result.failed_payouts,
                                StoredWinners(b)[i]) = 1]_vars

\* the number of records of a list of user ids that carry the id
Occurrences(list, uid) == Cardinality({i \in 1..Len(list) : list[i] = uid})

\* the refund results name every participant once: a participant with a
\* user_id by that id, a participant without one by a record with user_id 0
RefundsListEveryone(b) ==
    LET ok == UserIds(b.refund_results.successful_refunds)
        bad == b.refund_results.failed_refunds
    IN  /\ Len(ok) >= 1
        /\ Len(ok) + Len(bad) = Len(b.participants)
        /\ \A i \in 1..Len(b.participants) :
              b.participants[i].has_user_id
              => Listed(ok, b.participants[i]) + Listed(bad, b.participants[i]) = 1
        /\ Occurrences(ok, 0) = 0
        /\ Occurrences(bad, 0)
              = Cardinality({i \in 1..Len(b.participants) : ~b.participants[i].has_user_id})

\* C11: the step in which /cancelbet learns that the refund failed totally
\* (the multisend failed, or no recipient could be prepared) ends the command
\* and leaves the file as it is; the step in which /cancelbet saves after a
\* refund that succeeded stores the market as cancelled, with refund results
\* that list every participant of it exactly once, as refunded or as failed.
C11_RefundOutcomeRecorded ==
    [][\A c \in EndCalls :
          (calls[c].kind = "cancel_bet" /\ Took(c))
          => /\ ((calls[c].pc = "multisend" \/ calls'[c].outcome = "RefundFailed")
                   /\ calls'[c].tx = 0)
                => (file' = file /\ calls'[c].pc = "done"
                      /\ calls'[c].outcome = "RefundFailed")
             /\ (calls[c].pc = "save_write" /\ calls[c].outcome = "Cancelled")
                => LET b == file'.bets[get_bet_storage_key(calls[c].bet.id)]
                   IN  /\ ~b.is_active /\ b.cancelled
                       /\ b.refund_results.present
                       /\ RefundsListEveryone(b)]_vars

\* a market is stored as cancelled after a refund that paid some of its
\* participants and could not pay others
C11_Witness ==
    \E k \in DOMAIN file.bets :
        /\ file.bets[k].cancelled /\ ~file.bets[k].is_active
        /\ file.bets[k].refund_results.present
        /\ Len(file.bets[k].refund_results.successful_refunds) >= 1
        /\ Len(file.bets[k].refund_results.failed_refunds) >= 1

Abs(x) == IF x < 0 THEN -x ELSE x

\* C12: whenever /endbet holds the payout computation of a market that has at
\* least one participant on the winning option, the computation has
\* total_pool = bet_amount * the number of participants (whichever front end
\* admitted them), as many winners as participants on the winning option,
\* bot_fee = total_pool * BOT_FEE_PERCENTAGE / 100, payout_pool = total_pool -
\* bot_fee and payout = payout_pool / the number of winners, to the nearest
\* micro token.
C12_PayoutComputation ==
    \A c \in EndCalls :
        LET b == calls[c].bet
            pd == calculate_payouts(b, calls[c].option - 1)
            winners == SelectSeq(b.participants, LAMBDA p : p.option = calls[c].option - 1)
        IN  (calls[c].kind = "endbet" /\ calls[c].pc = "defer"
               /\ calls[c].option - 1 \in 0..(b.options - 1) /\ winners # <<>>)
            => /\ pd.success
               /\ pd.total_pool = b.bet_amount * Len(b.participants)
               /\ Len(pd.winners) = Len(winners)
               /\ 100 * pd.bot_fee_c = 100 * pd.total_pool * BOT_FEE_PERCENTAGE
               /\ pd.payout_pool_c = 100 * pd.total_pool - pd.bot_fee_c
               /\ \A i \in 1..Len(pd.winners) :
                     2 * Abs(100 * Len(pd.winners) * pd.winners[i].payout - pd.payout_pool_c)
                       <= 100 * Len(pd.winners)

\* C13: for every stored market that was ended with winners, bot_fee plus the
\* amounts transferred to the winners differs from total_pool by at most one
\* micro token per winner (amounts below are in hundredths of a micro token).
C13_FeeConservation ==
    \A k \in DOMAIN file.bets :
        LET pd == file.bets[k].payout_data
        IN  (pd.present /\ pd.winners # <<>>)
            => Abs(pd.bot_fee_c + 100 * SumPayout(pd.winners) - 100 * pd.total_pool)
                 <= 100 * Len(pd.winners)

\* a market was ended with winners whose share is not a whole number of micro
\* tokens, so that the transferred amount was rounded
C13_Witness ==
    \E k \in DOMAIN file.bets :
        LET pd == file.bets[k].payout_data
        IN  /\ pd.present /\ pd.winners # <<>>
            /\ pd.bot_fee_c + 100 * SumPayout(pd.winners) # 100 * pd.total_pool

\* /endbet call c is at the computation, its market has participants and none
\* of them chose the winning option
NobodyChose(c) ==
    /\ calls[c].kind = "endbet" /\ calls[c].pc = "defer"
    /\ calls[c].option - 1 \in 0..(calls[c].bet.options - 1)
    /\ calls[c].bet.participants # <<>>
    /\ \A i \in 1..Len(calls[c].bet.participants) :
          calls[c].bet.participants[i].option # calls[c].option - 1

\* C14: when /endbet computes on a market with participants of whom none chose
\* the winning option, the fee it records is the whole total_pool, and the
\* step sends nothing out of escrow and does not go on to a multisend.
C14_NoWinnersPoolIsFee ==
    [][\A c \in EndCalls :
          (NobodyChose(c) /\ Took(c) /\ calls'[c].outcome = "NoWinners")
          => /\ calls'[c].bet.payout_data.bot_fee_c = 100 * calls'[c].bet.payout_data.total_pool
             /\ calls'[c].pc # "multisend"
             /\ batches' = batches /\ escrowOut' = escrowOut /\ nextTx' = nextTx]_vars

\* C15: when /endbet computes on a market with participants of whom none chose
\* the winning option, the step marks the market ended with the winning
\* option and a no_winners record whose bot_fee is total_pool *
\* BOT_FEE_PERCENTAGE / 100, goes on to save it, and sends nothing out of
\* escrow; the save stores that market.
C15_NoWinnersSettled ==
    [][\A c \in EndCalls :
          /\ (NobodyChose(c) /\ Took(c))
             => LET b == calls'[c].bet
                IN  /\ calls'[c].pc = "save_load" /\ calls'[c].outcome = "NoWinners"
                    /\ ~b.is_active /\ ~b.cancelled
                    /\ b.winning_option = calls[c].option - 1
                    /\ b.participants = calls[c].bet.participants
                    /\ b.payout_data.present /\ b.payout_data.no_winners
                    /\ b.payout_data.winners = <<>>
                    /\ 100 * b.payout_data.bot_fee_c
                          = 100 * b.payout_data.total_pool * BOT_FEE_PERCENTAGE
                    /\ batches' = batches /\ escrowOut' = escrowOut /\ nextTx' = nextTx
          /\ (calls[c].kind = "endbet" /\ calls[c].pc = "save_write" /\ Took(c)
                /\ calls[c].outcome = "NoWinners")
             => /\ file'.bets[get_bet_storage_key(calls[c].bet.id)] = calls[c].bet
                /\ calls'[c].pc = "done" /\ calls'[c].tx = 0
                /\ batches' = batches /\ escrowOut' = escrowOut]_vars

\* C16: when /endbet computes on a market it read as open and without
\* participants, the step marks the market ended with the winning option,
\* total_pool 0, bot_fee 0 and no winners, goes on to save it and sends nothing
\* out of escrow; the save stores that market and the command ends without a
\* transaction.
C16_EmptyMarketSettled ==
    [][\A c \in EndCalls :
          /\ (calls[c].kind = "endbet" /\ calls[c].pc = "defer" /\ Took(c)
                /\ calls[c].option - 1 \in 0..(calls[c].bet.options - 1)
                /\ calls[c].bet.participants = <<>>)
             => LET b == calls'[c].bet
                IN  /\ calls'[c].pc = "save_load"
                    /\ calls'[c].outcome = "ClosedNoParticipants"
                    /\ ~b.is_active /\ ~b.cancelled
                    /\ b.winning_option = calls[c].option - 1
                    /\ b.participants = <<>>
                    /\ b.payout_data.present /\ b.payout_data.success
                    /\ b.payout_data.total_pool = 0 /\ b.payout_data.bot_fee_c = 0
                    /\ b.payout_data.payout_pool_c = 0 /\ b.payout_data.winners = <<>>
                    /\ ~b.distribution_result.present
                    /\ batches' = batches /\ escrowOut' = escrowOut /\ nextTx' = nextTx
          /\ (calls[c].kind = "endbet" /\ calls[c].pc = "save_write" /\ Took(c)
                /\ calls[c].outcome = "ClosedNoParticipants")
             => /\ file'.bets[get_bet_storage_key(calls[c].bet.id)] = calls[c].bet
                /\ calls'[c].pc = "done" /\ calls'[c].tx = 0
                /\ batches' = batches /\ escrowOut' = escrowOut /\ nextTx' = nextTx]_vars

\* a market without participants is stored as ended, with an empty payout
\* computation, and nothing was ever sent out of escrow for it
C16_Witness ==
    \E k \in DOMAIN file.bets :
        /\ ~file.bets[k].is_active /\ ~file.bets[k].cancelled
        /\ file.bets[k].winning_option # -1
        /\ file.bets[k].participants = <<>>
        /\ file.bets[k].payout_data.present
        /\ file.bets[k].payout_data.no_participants
        /\ batches[file.bets[k].id] = 0 /\ escrowOut[file.bets[k].id] = 0

\* call c is invoked in this step as a command of the kind
Invoked(c, kind) == calls[c].kind = "none" /\ calls'[c].kind = kind

\* C17: when /cancelbet is invoked on a stored open market without
\* participants by its creator, or by another user who is let through as an
\* admin, the step marks the market cancelled, goes on to save it and sends
\* nothing out of escrow; the save stores that market and the command ends
\* without a transaction.
C17_EmptyMarketCancelled ==
    [][\A c \in EndCalls :
          /\ LET b == get_bet_by_id(calls'[c].bet_id)
             IN  (Invoked(c, "cancel_bet") /\ b # NoBet /\ b.is_active
                    /\ b.participants = <<>>
                    /\ (CreatorId(b) = calls'[c].user
                          \/ calls'[c].outcome # "PermissionDenied"))
                 => /\ calls'[c].pc = "save_load"
                    /\ calls'[c].outcome = "CancelledNoParticipants"
                    /\ calls'[c].bet = [b EXCEPT !.is_active = FALSE, !.cancelled = TRUE,
                          !.cancelled_by = IF CreatorId(b) = calls'[c].user
                                           THEN "Creator" ELSE "Admin"]
                    /\ batches' = batches /\ escrowOut' = escrowOut /\ nextTx' = nextTx
          /\ (calls[c].kind = "cancel_bet" /\ calls[c].pc = "save_write" /\ Took(c)
                /\ calls[c].outcome = "CancelledNoParticipants")
             => /\ file'.bets[get_bet_storage_key(calls[c].bet.id)] = calls[c].bet
                /\ calls[c].bet.cancelled /\ ~calls[c].bet.is_active
                /\ calls'[c].pc = "done" /\ calls'[c].tx = 0
                /\ batches' = batches /\ escrowOut' = escrowOut /\ nextTx' = nextTx]_vars

\* a market without participants is stored as cancelled by its creator and
\* nothing was ever sent out of escrow for it
C17_Witness ==
    \E k \in DOMAIN file.bets :
        /\ ~file.bets[k].is_active /\ file.bets[k].cancelled
        /\ file.bets[k].cancelled_by = "Creator"
        /\ file.bets[k].participants = <<>>
        /\ ~file.bets[k].refund_results.present
        /\ batches[file.bets[k].id] = 0 /\ escrowOut[file.bets[k].id] = 0

\* C18: when /cancelbet prepares the refund of a market with participants
\* and issues the multisend, while every participant that has a user_id has a
\* wallet, the recipients are the participants, each once and in order, each
\* with the amount and the token of its own entry.
C18_RefundsEveryParticipant ==
    [][\A c \in EndCalls :
          LET ps == calls[c].bet.participants
              rs == calls'[c].recipients
          IN  (calls[c].kind = "cancel_bet" /\ calls[c].pc = "defer" /\ Took(c)
                 /\ calls'[c].pc = "multisend"
                 /\ \A i \in 1..Len(ps) : ps[i].has_user_id => ps[i].user_id \in wallets)
              => /\ Len(rs) = Len(ps)
                 /\ \A i \in 1..Len(ps) :
                       /\ rs[i].payout = ps[i].amount
                       /\ rs[i].token = ps[i].token
                       /\ ps[i].has_user_id => rs[i].user_id = ps[i].user_id]_vars

\* the step leaves the file and the escrow as they are
NothingMoved ==
    /\ file' = file /\ batches' = batches /\ escrowOut' = escrowOut
    /\ escrowIn' = escrowIn /\ nextTx' = nextTx

\* C19: a /endbet or /cancelbet on a stored market by a user who is not its
\* creator, is not in ADMIN_USER_IDS and has no admin role ends at once with
\* PermissionDenied, and the step leaves the file and the escrow as they are.
C19_PermissionDenied ==
    [][\A c \in EndCalls, m \in MarketIds, u \in Users :
          (/\ get_bet_by_id(m) # NoBet
           /\ CreatorId(get_bet_by_id(m)) # u
           /\ u \notin ADMIN_USER_IDS
           /\ \/ \E o \in 1..MaxOptions : endbet(c, m, o, u, FALSE)
              \/ cancel_bet(c, m, u, FALSE))
          => /\ calls'[c].pc = "done" /\ calls'[c].outcome = "PermissionDenied"
             /\ calls'[c].tx = 0
             /\ NothingMoved]_vars

\* a /endbet and a /cancelbet of a user who is not the creator were denied,
\* and the market is still open
C19_Witness ==
    \E c, d \in EndCalls :
        /\ calls[c].kind = "endbet" /\ calls[d].kind = "cancel_bet"
        /\ calls[c].outcome = "PermissionDenied" /\ calls[c].pc = "done"
        /\ calls[d].outcome = "PermissionDenied" /\ calls[d].pc = "done"
        /\ calls[c].bet_id = calls[d].bet_id
        /\ get_bet_by_id(calls[c].bet_id) # NoBet
        /\ get_bet_by_id(calls[c].bet_id).is_active
        /\ CreatorId(get_bet_by_id(calls[c].bet_id)) # calls[c].user

\* ((id - 1) mod N) + 1
SlotFormula(id, N) == ((id - 1) % N) + 1

\* the capacities the slot function is looked at with
Capacities == (1..MaxCapacity) \cup {MAX_BETS}

\* C20: every market of the file is stored under the key ((id - 1) mod
\* MAX_BETS) + 1 of its id, a key in 1..MAX_BETS; for the id the store hands
\* out next and every capacity N the slot function of the test equals
\* ((id - 1) mod N) + 1, lies in 1..N, is the identity on 1..N and has period
\* N; and for MAX_BETS = 100 the ids 1, 100, 101, 150, 200, 301 have the
\* slots 1, 100, 1, 50, 100, 1.
C20_SlotFunction ==
    /\ \A k \in DOMAIN file.bets :
          /\ k = SlotFormula(file.bets[k].id, MAX_BETS)
          /\ k = get_bet_storage_key(file.bets[k].id)
          /\ k \in 1..MAX_BETS
    /\ \A N \in Capacities :
          LET id == file.bet_id_counter
          IN  /\ get_bet_storage_key_of(id, N) = SlotFormula(id, N)
              /\ get_bet_storage_key_of(id, N) \in 1..N
              /\ id \in 1..N => get_bet_storage_key_of(id, N) = id
              /\ get_bet_storage_key_of(id + N, N) = get_bet_storage_key_of(id, N)
    /\ get_bet_storage_key(file.bet_id_counter)
          = get_bet_storage_key_of(file.bet_id_counter, MAX_BETS)
    /\ MAX_BETS = 100
          => /\ get_bet_storage_key(1) = 1 /\ get_bet_storage_key(100) = 100
             /\ get_bet_storage_key(101) = 1 /\ get_bet_storage_key(150) = 50
             /\ get_bet_storage_key(200) = 100 /\ get_bet_storage_key(301) = 1

\* /makebet has stored a market with an id above MAX_BETS, in the slot that
\* the market MAX_BETS ids before it had
C20_Witness ==
    \E c \in MakeCalls :
        /\ calls[c].kind = "makebet" /\ calls[c].pc = "done"
        /\ calls[c].bet_id > MAX_BETS
        /\ get_bet_storage_key(calls[c].bet_id) < calls[c].bet_id
        /\ get_bet_storage_key(calls[c].bet_id) \in DOMAIN file.bets
        /\ file.bets[get_bet_storage_key(calls[c].bet_id)].id = calls[c].bet_id

\* a put writes the file: save_bet of the bot, save_bet of the web app
PutWrites(c) ==
    /\ calls[c].pc \in {"save_write", "web_save_write"}
    /\ calls'[c].pc = "done"

\* C21: put(market) makes slot(market.id) hold exactly that market, whatever
\* was there before (id N+1 takes the place of id 1); every other slot and the
\* id counter are as in the document the put read; and the store never holds
\* more than N markets.
C21_PutFrame ==
    [][\A c \in CallIds : PutWrites(c) =>
          LET market == calls[c].bet
              doc == calls[c].data
              slot == SlotFormula(market.id, MAX_BETS)
          IN  /\ slot \in DOMAIN file'.bets
              /\ file'.bets[slot] = market
              /\ DOMAIN file'.bets = (DOMAIN doc.bets) \cup {slot}
              /\ \A k \in DOMAIN file'.bets : k # slot => file'.bets[k] = doc.bets[k]
              /\ file'.bet_id_counter = doc.bet_id_counter
              /\ Cardinality(DOMAIN file'.bets) <= MAX_BETS]_vars

\* market N+1 was put and took the slot of market 1, in a full store
C21_Witness ==
    /\ \E c \in CallIds : calls[c].outcome = "Created" /\ calls[c].pc = "done"
                          /\ calls[c].bet_id = MAX_BETS + 1
    /\ 1 \in DOMAIN file.bets
    /\ file.bets[1].id = MAX_BETS + 1
    /\ Cardinality(DOMAIN file.bets) = MAX_BETS


\* call c created a market and its put is in the file
Stored(c) ==
    /\ calls[c].pc = "done"
    /\ calls[c].outcome = "Created"
    /\ get_bet_storage_key(calls[c].bet_id) \in DOMAIN file.bets
    /\ file.bets[get_bet_storage_key(calls[c].bet_id)].id = calls[c].bet_id

\* C22: get(id) never returns a market whose own id is not the requested id:
\* once market i + N was put in the slot of market i, get(i) is absent, for
\* the bot's get_bet_by_id and for the web app's.
C22_GetChecksId ==
    \A c \in CallIds :
        (Stored(c) /\ calls[c].bet_id > MAX_BETS) =>
            LET i == calls[c].bet_id - MAX_BETS
            IN  /\ get_bet_by_id(i) = NoBet
                /\ web_get_bet_by_id(i) = NoBet

\* C23: after CreateMarket reported success with id i >= 1, getMarket(i)
\* returns that market for as long as it is in the store (until N further
\* markets were created), also when i > N, for the bot's get_bet_by_id and
\* for the web app's.
C23_CreatedIsFound ==
    \A c \in CallIds :
        (Stored(c) /\ calls[c].bet_id >= 1) =>
            /\ get_bet_by_id(calls[c].bet_id).id = calls[c].bet_id
            /\ web_get_bet_by_id(calls[c].bet_id).id = calls[c].bet_id

\* call c is a CreateMarket call that has been given its id
Assigned(c) ==
    /\ calls[c].kind \in {"makebet", "web_create"}
    /\ \/ calls[c].pc \in {"save_load", "save_write", "web_save_load", "web_save_write"}
       \/ calls[c].pc = "done" /\ calls[c].outcome = "Created"

\* C24: along every interleaving of CreateMarket calls of the bot and of the
\* web app, each id that is assigned is a positive integer and is greater than
\* every id assigned before it (so no two calls get the same id).
C24_IdsUniqueIncreasing ==
    [][\A c \in CallIds :
          (~Assigned(c) /\ Assigned(c)') =>
              /\ calls'[c].bet_id >= 1
              /\ \A d \in CallIds \ {c} :
                    Assigned(d) => calls'[c].bet_id > calls[d].bet_id]_vars

\* call c is a CreateMarket call that returned success
Created(c) == calls[c].pc = "done" /\ calls[c].outcome = "Created"

\* C25: the mutations of the store are serialized: when a CreateMarket call of
\* the bot and one of the web app (each a nextId and a put) both report
\* success, with different ids, the persisted document holds both markets and
\* a counter beyond both ids; no write of the whole file discards the other
\* call's update.
C25_BothUpdatesPersist ==
    \A c \in MakeCalls, d \in WebCreateCalls :
        (Created(c) /\ Created(d) /\ calls[c].bet_id # calls[d].bet_id) =>
            /\ Stored(c)
            /\ Stored(d)
            /\ file.bet_id_counter > calls[c].bet_id
            /\ file.bet_id_counter > calls[d].bet_id

\* the first precondition of PlaceEntry that fails, in the order market
\* exists, not locked, Open, option in range, no prior Entry, wallet
PlaceEntryExpected(m, option_index, has_entry, has_wallet) ==
    IF m = NoBet THEN "NotFound"
    ELSE IF is_bet_locked(m) THEN "Locked"
    ELSE IF ~m.is_active THEN "NotOpen"
    ELSE IF option_index < 0 \/ option_index >= m.options THEN "InvalidOption"
    ELSE IF has_entry THEN "AlreadyBet"
    ELSE IF ~has_wallet THEN "NoWallet"
    ELSE "ok"

\* the precondition an outcome reports
ReasonOf(outcome) ==
    IF outcome \in {"Ended", "Cancelled", "NotActive"} THEN "NotOpen" ELSE outcome

\* the market of that id in the file
MarketOf(bet_id) == DictGet(file.bets, get_bet_storage_key(bet_id))

\* C26: PlaceEntry fails, with no transfer dispatched and no change of the
\* store, when the market is absent, locked, not Open, the option is out of
\* range, the principal already has an Entry or has no wallet; when several
\* hold, the reason reported is the first one in that order. For /bet: a check
\* step that ends the command reports the first failing precondition and moves
\* nothing, and a check step that lets the command go on had none failing (the
\* wallet is looked at in the second check). For /api/place-bet: a request
\* that is admitted had none failing, and a rejection reports no precondition
\* while an earlier one fails.
C26_PlaceEntryFailures ==
    [][/\ \A c \in BetCalls :
            (calls[c].kind = "bet" /\ calls[c].pc \in {"check1", "check2"} /\ Took(c)
             /\ calls'[c].outcome # "ServiceUnavailable") =>
                LET m == MarketOf(calls[c].bet_id)
                    expected == PlaceEntryExpected(m, calls[c].option - 1,
                                    HasEntryOf(m, calls[c].user),
                                    calls[c].user \in wallets)
                IN  IF calls'[c].pc = "done"
                    THEN ReasonOf(calls'[c].outcome) = expected /\ NothingMoved
                    ELSE \/ expected = "ok"
                         \/ expected = "NoWallet" /\ calls[c].pc = "check1"
       /\ \A c \in WebCalls :
            (calls[c].kind = "none" /\ calls'[c].kind = "web_bet"
             /\ calls'[c].outcome \notin {"MissingField", "NotPositive", "InvalidAddress",
                                          "NoTxHash"}) =>
                LET m == MarketOf(calls'[c].bet_id)
                IN  /\ NothingMoved
                    /\ IF calls'[c].pc = "done"
                       THEN PlaceEntryExpected(m, 0, FALSE, TRUE) \in
                                {"ok", ReasonOf(calls'[c].outcome)}
                       ELSE LET ps == calls'[c].data.bets[
                                          get_bet_storage_key(calls'[c].bet_id)].participants
                                entry == ps[Len(ps)]
                            IN  PlaceEntryExpected(m, entry.option,
                                    \E i \in 1..Len(m.participants) :
                                        m.participants[i].wallet_address =
                                            entry.wallet_address,
                                    TRUE) = "ok"]_vars

\* a CreateMarket request breaks a bound: fewer than 2 or more than 5 options,
\* an option of more than 100 characters, a question of more than 200, an
\* amount that is not positive or is below the minimum, an unsupported token
BreaksBound(question_len, n_options, option_len, bet_amount, token) ==
    \/ n_options < 2 \/ n_options > 5
    \/ option_len > 100
    \/ question_len > 200
    \/ bet_amount.kind = "number" /\ (bet_amount.v <= 0 \/ bet_amount.v < MIN_BET_AMOUNT)
    \/ Lower(token) \notin {"osmo", "lab"}

\* the step ends call c with a rejection, allocates no id and writes nothing
RejectedAtOnce(c) ==
    /\ calls'[c].pc = "done"
    /\ calls'[c].outcome \in {"MissingField", "TooFewOptions", "TooManyOptions",
                              "OptionTooLong", "QuestionTooLong", "InvalidAmount",
                              "NotPositive", "BelowMinimum", "UnsupportedToken"}
    /\ calls'[c].bet_id = 0
    /\ file' = file

\* C27: a CreateMarket request that breaks a bound is rejected without an id
\* being allocated and without a market being written, by /makebet and by
\* /api/create-bet: a step that starts a CreateMarket call and is not such a
\* rejection is the step of no request that breaks a bound.
C27_InvalidCreateRejected ==
    [][\A c \in MakeCalls \cup WebCreateCalls :
          (calls[c].kind = "none" /\ Took(c) /\ ~RejectedAtOnce(c)) =>
              \A q \in QuestionLens, n \in OptionCounts, ol \in OptionLens,
                 a \in AmountInputs, t \in TokenInputs, l \in TimeLimits :
                  BreaksBound(q, n, ol, a, t) =>
                      /\ \A u \in Creators : ~makebet_request(c, u, q, n, ol, a, t, l)
                      /\ \A f \in BOOLEAN : ~api_create_bet(c, f, q, n, ol, a, t, l)]_vars

\* both front ends have rejected a request and the installation is still
\* without a file
C27_Witness ==
    /\ \E c \in MakeCalls : calls[c].pc = "done" /\ calls[c].outcome = "QuestionTooLong"
    /\ \E c \in WebCreateCalls : calls[c].pc = "done" /\ calls[c].outcome = "BelowMinimum"
    /\ ~file.exists

\* C28: every stored Entry has the amount and the token of its market and an
\* option index within the market's options, whichever front end admitted it.
C28_EntriesMatchMarket ==
    \A k \in DOMAIN file.bets :
        \A i \in 1..Len(file.bets[k].participants) :
            LET market == file.bets[k]
                entry == market.participants[i]
            IN  /\ entry.amount = market.bet_amount
                /\ entry.token = market.bet_token
                /\ entry.option >= 0
                /\ entry.option < market.options

\* the failure messages of /bet that say that no tokens were transferred
\* (the footer of the failed-transfer embed, the unexpected-error embed), and
\* the one that says that the transaction went through
SaysNothingMoved == {"TransferFailed", "UnexpectedError"}
SaysFundsMoved == {"DuplicatePrevented"}

\* C29: a failure outcome of PlaceEntry says that no funds moved only when no
\* transfer succeeded during the call, and a failure after the transfer
\* succeeded (at the final duplicate check or at the save) says that funds
\* moved, never that no tokens were transferred. (The failures before any
\* transfer is attempted say nothing about funds.)
C29_FailureTellsFunds ==
    \A c \in BetCalls :
        (calls[c].kind = "bet" /\ calls[c].pc = "done" /\ calls[c].outcome # "BetPlaced") =>
            /\ calls[c].outcome \in SaysNothingMoved => calls[c].tx = 0
            /\ calls[c].outcome \in SaysFundsMoved => calls[c].tx # 0
            /\ calls[c].tx # 0 => calls[c].outcome \in SaysFundsMoved

\* C30: within one call, a transfer request whose outcome is unknown (it
\* timed out or lost its connection after it was sent) is never sent again:
\* every attempt of _make_osmjs_request is made while no earlier attempt of
\* the call is in doubt.
C30_NoResendInDoubt ==
    [][\A c \in BetCalls :
          (calls[c].kind = "bet" /\ calls[c].pc = "transfer" /\ Took(c)) =>
              calls[c].in_doubt = 0]_vars

\* the wallet of the entry's principal can be resolved: the user has a wallet,
\* or the entry itself carries the address
Resolvable(p) ==
    IF p.has_user_id THEN p.user_id \in wallets ELSE p.wallet_address # ""

\* C31: a /endbet on a market with at least one winner makes exactly one batch
\* transfer call; its recipients are exactly the winners (the participants on
\* the winning option) whose wallet can be resolved, each once, all with the
\* same amount (perWinner of the computation) in the market's token; nobody
\* else is a recipient.
C31_SettleRecipients ==
    [][\A c \in EndCalls :
          /\ (calls[c].kind = "endbet" /\ calls[c].pc = "defer" /\ Took(c)) =>
                LET b == calls[c].bet
                    w == calls[c].option - 1
                    pd == calculate_payouts(b, w)
                    winners == {i \in 1..Len(b.participants) :
                                   b.participants[i].option = w
                                   /\ Resolvable(b.participants[i])}
                    rs == calls'[c].recipients
                IN  (w \in 0..(b.options - 1) /\ winners # {}) =>
                        /\ calls'[c].pc = "multisend"
                        /\ Len(rs) = Cardinality(winners)
                        /\ \A i \in winners : Listed(UserIds(rs), b.participants[i]) = 1
                        /\ \A j \in 1..Len(rs) :
                              /\ rs[j].token = b.bet_token
                              /\ rs[j].payout = pd.winners[1].payout
          /\ (calls[c].kind = "endbet" /\ calls[c].pc = "multisend" /\ Took(c)) =>
                calls'[c].pc \in {"save_load", "done"}]_vars

\* C32: the rounding of the per-winner amount to 6 fractional digits favours
\* the custodian: the amounts of the batch that /endbet is about to send add
\* up to payout_pool at most (payout_pool in hundredths of a micro token).
C32_RoundingFavoursCustodian ==
    \A c \in EndCalls :
        (calls[c].kind = "endbet" /\ calls[c].pc = "multisend") =>
            100 * SumPayout(calls[c].recipients)
                <= calculate_payouts(calls[c].bet, calls[c].option - 1).payout_pool_c

\* the file holds an entry that carries the transfer of call c
EntryOfTransfer(f, c) ==
    \E k \in DOMAIN f.bets : \E i \in 1..Len(f.bets[k].participants) :
        /\ f.bets[k].participants[i].has_user_id
        /\ f.bets[k].participants[i].user_id = calls[c].user
        /\ f.bets[k].participants[i].tx_hash = calls[c].tx

\* C33: a /bet whose transfer succeeded ends in exactly one of two ways: its
\* Entry is appended and persisted, or the caller gets an outcome that carries
\* the transfer reference (DuplicatePrevented, the save error); it never ends
\* with neither, also when the market is absent at the re-read that follows
\* the transfer.
C33_TransferNeverDropped ==
    [][\A c \in BetCalls :
          (calls[c].kind = "bet" /\ calls[c].tx # 0 /\ calls[c].pc # "done"
           /\ calls'[c].pc = "done") =>
              ((calls'[c].outcome = "BetPlaced" /\ EntryOfTransfer(file', c))
                  # (calls'[c].outcome \in {"DuplicatePrevented", "SaveError"}))]_vars

\* the document call c is about to write from is not the one in the file:
\* its read failed (the bot runs nothing between a command's read and write)
ReadFailed(c) ==
    /\ calls[c].pc \in {"id_write", "save_write"}
    /\ \/ calls[c].data.bets # load_bets_data.bets
       \/ calls[c].data.bet_id_counter # load_bets_data.bet_id_counter

\* C34: when the read of the markets document fails during put or nextId, the
\* operation reports failure and leaves the persisted document as it was: no
\* other market is erased, the counter is not reset, and no id that was
\* already given out is returned.
C34_FailedReadLeavesFile ==
    [][\A c \in MakeCalls \cup EntryBetCalls :
          (ReadFailed(c) /\ Took(c)) =>
              /\ file' = file
              /\ calls'[c].outcome \notin {"", "Created", "BetPlaced"}]_vars

\* the creator stored with market 1 is a text that is not a number
CreatorIsName == 
    /\ get_bet_by_id(1) # NoBet
    /\ get_bet_by_id(1).creator.kind = "name"

\* C35: on a market whose stored creator is not a numeric user id (the free
\* text name of a web-created market), /endbet and /cancelbet get past the
\* permission check only for a requester who is an admin; a requester who is
\* not an admin is never taken for the creator.
C35_NameCreatorAdminsOnly ==
    [][\A c \in EndCalls, u \in Users :
          CreatorIsName =>
              /\ \A o \in 1..MaxOptions :
                    endbet(c, 1, o, u, FALSE) => calls'[c].outcome = "PermissionDenied"
              /\ cancel_bet(c, 1, u, FALSE) => calls'[c].outcome = "PermissionDenied"
              /\ \A o \in 1..MaxOptions :
                    endbet(c, 1, o, u, TRUE) => calls'[c].outcome # "PermissionDenied"
              /\ cancel_bet(c, 1, u, TRUE) => calls'[c].outcome # "PermissionDenied"]_vars

\* an admin's /endbet and /cancelbet went ahead on a market created by a name
\* and those of a user who is no admin were refused
C35_Witness ==
    /\ CreatorIsName
    /\ \E c, d \in EndCalls :
        /\ calls[c].outcome = "PermissionDenied"
        /\ calls[d].kind = "cancel_bet" /\ calls[d].pc = "multisend"

\* an attempt of call c's request ends without an HTTP 200 response: the
\* request raised (timeout, connection) or the status was not 200
AttemptFails(c) == RequestHttpError(c) \/ \E moved \in BOOLEAN : RequestTimesOut(c, moved)

C37_EscrowNeverOverdrawn ==
    \A m \in MarketIds : escrowOut[m] <= escrowIn[m]

\* market 1 is closed in the file
Closed == get_bet_by_id(1) # NoBet /\ ~get_bet_by_id(1).is_active

\* C38: every open market with participants can be closed: when the transfer
\* service accepts every request and every user has a wallet, an admin's
\* /endbet with an option in range, or /cancelbet, that passed its checks
\* leads to the market being stored as ended or cancelled, whichever front
\* end admitted its entries.
C38_OpenMarketCanBeClosed ==
    \A c \in PayoutCalls :
        (calls[c].kind \in {"endbet", "cancel_bet"} /\ calls[c].pc = "defer") ~> Closed

\* C39: a /bet on an open market that holds web-admitted entries (with a
\* wallet_address and no user_id) is processed as on any market: the three
\* duplicate checks take those entries for other principals, and the call is
\* never aborted by them.
C39_WebEntriesDoNotAbort ==
    \A c \in BetCalls : calls[c].kind = "bet" => calls[c].outcome # "UnexpectedError"

\* the stored entries, each named by its slot and its place in the list
EntryPlaces ==
    {<<k, i>> \in (DOMAIN file.bets) \X (1..MaxEntries) :
        i <= Len(file.bets[k].participants)}

\* C40: no two stored entries, of the same market or of different markets,
\* carry the same tx_hash, whichever front end admitted them.
C40_TxHashUnique ==
    \A x, y \in EntryPlaces :
        x # y => file.bets[x[1]].participants[x[2]].tx_hash
                    # file.bets[y[1]].participants[y[2]].tx_hash

====
